---- MODULE Spec2Model ----
(***************************************************************************)
(* Scheduling and concurrency engine of Convo-Analytics:                   *)
(*   - backend/app/agents.py: BaseAgent (priority task queue, scheduling   *)
(*     loop, retry with priority decay) and AgentManager (routing);        *)
(*   - backend/app/realtime_processor.py: RealtimeProcessor (per-session   *)
(*     audio buffering, trigger, worker pool, result handler).             *)
(* Both run as coroutines of one asyncio event loop: a step of the model   *)
(* is the code a coroutine runs between two suspension points.             *)
(***************************************************************************)
EXTENDS Integers, Sequences, FiniteSets, TLC

(***************************************************************************)
(* Bounds of the model (not program constants).                            *)
(***************************************************************************)
\* Task objects created by submit_task over a run.
MaxTasks == 2
\* Largest max_concurrent_tasks an AgentConfig is constructed with.
MaxCap == 2
\* Task objects created over a run of SpecQueue.
MaxQueueTasks == 3

(***************************************************************************)
(* agents.py: enums, dataclass defaults and configuration.                 *)
(***************************************************************************)
\* Priority(Enum)
LOW == 1
MEDIUM == 2
HIGH == 3
CRITICAL == 4
Priority == {LOW, MEDIUM, HIGH, CRITICAL}

\* AgentStatus(Enum) values
AgentStatus == {"idle", "processing", "error", "completed"}

\* Task.max_retries default; add_task never overrides it.
max_retries == 3

\* Task.error values: None, the two literals of the code, and str(e) of a
\* collaborator exception.
NoError == "None"
InvalidInputError == "Invalid input data"
TimeoutError == "Task timeout"
CollaboratorError == "str(e)"

\* A dict with no key.
EmptyDict == [k \in {} |-> 0]

\* Task.result before completion (None).  Once set, returned is the dict
\* process_task returned, quality_score and quality_warning the keys
\* _execute_task adds to it.
NoResult == [set |-> FALSE, returned |-> EmptyDict, quality_score |-> 0,
             quality_warning |-> FALSE]

\* The agents AgentManager.initialize_agents registers.
Agents == {"transcription", "analysis", "quality_control"}

\* AgentManager.task_routing
task_routing == [tt \in {"transcribe", "analyze", "quality_check"} |->
                    IF tt = "transcribe" THEN "transcription"
                    ELSE IF tt = "analyze" THEN "analysis" ELSE "quality_control"]

\* Task types a caller may pass: the routed ones and one that is not routed.
TaskTypes == {"transcribe", "analyze", "quality_check", "summarize"}

\* AgentConfig.confidence_threshold of each agent, in hundredths.
confidence_threshold == [a \in Agents |-> IF a = "analysis" THEN 70 ELSE 80]

\* AgentConfig.enable_quality_control default.
enable_quality_control == TRUE

\* Payloads: the set of keys of the data dict.
Payloads == {{"audio_path"}, {"transcript"}, {"transcript", "analysis_result"}}

\* validate_input of the three agents: all required fields present.
RequiredFields == [a \in Agents |->
                     IF a = "transcription" THEN {"audio_path"}
                     ELSE IF a = "analysis" THEN {"transcript"}
                     ELSE {"transcript", "analysis_result"}]

validate_input(a, data) == RequiredFields[a] \subseteq data

\* What process_task returns: a dict, of which the engine reads the keys
\* "confidence" and "accuracy" (values in hundredths).  The collaborators of
\* Spec return a dict with a low confidence or one with neither key.
CollabResults == { [k \in {"confidence"} |-> 50], EmptyDict }

\* The values the collaborators of SpecQuality put under the two keys: below,
\* at and above both thresholds, and outside [0, 1].
QualityValues == {-20, 50, 70, 75, 80, 90, 120}

\* The dicts the collaborators of SpecQuality return: any subset of the two
\* keys with any of the values.
QualityResults ==
    UNION { [K -> QualityValues] : K \in SUBSET {"confidence", "accuracy"} }

Min(x, y) == IF x < y THEN x ELSE y
Max(x, y) == IF x > y THEN x ELSE y

\* Faulty variant of assess_quality: "accuracy" is looked up before
\* "confidence".
assess_quality_AccuracyFirst(result) ==
    LET quality_score == IF "accuracy" \in DOMAIN result THEN result["accuracy"]
                         ELSE IF "confidence" \in DOMAIN result
                         THEN result["confidence"]
                         ELSE 80
    IN  Min(100, Max(0, quality_score))

\* BaseAgent._assess_quality
assess_quality(result) ==
    LET quality_score == IF "confidence" \in DOMAIN result
                         THEN result["confidence"]
                         ELSE IF "accuracy" \in DOMAIN result
                         THEN result["accuracy"]
                         ELSE 80
    IN  Min(100, Max(0, quality_score))

VARIABLES
    \* ---- agents.py ----
    tasks,            \* every Task object created, indexed by creation order (its
                      \* id); the fields the engine never reads (data, metadata,
                      \* the three timestamps) are left out
    max_concurrent,   \* config.max_concurrent_tasks of each agent
    task_queue,       \* BaseAgent.task_queue: sequence of task ids
    active_tasks,     \* BaseAgent.active_tasks: set of task ids (dict keys)
    completed_tasks,  \* BaseAgent.completed_tasks: sequence of task ids
    quality_metrics,  \* BaseAgent.quality_metrics: count and sum (avg = sum / count)
    shutdown_flag,    \* BaseAgent._shutdown
    loop_pc,          \* where BaseAgent.start is suspended
    loop_task,        \* the task BaseAgent.start awaits in _execute_task (0: none)
    shutdown_pc,      \* where BaseAgent.shutdown is suspended
    shutdown_all_pc,  \* where AgentManager.shutdown_all_agents is suspended
    tasks_submitted,  \* AgentManager.global_metrics["tasks_submitted"]
    \* ---- history variables (observations, not program state) ----
    attempts,         \* per task: number of process_task invocations
    submitted,        \* per task: the priority it was submitted with
    valid             \* per task: what validate_input returned for its payload

VARIABLES
    \* ---- realtime_processor.py ----
    sessions,          \* RealtimeProcessor.sessions: session id -> RealtimeSession
    sessions_created,  \* number of create_session calls (the next id is fresh)
    processing_queue,  \* RealtimeProcessor.processing_queue
    result_queue,      \* RealtimeProcessor.result_queue
    running,           \* RealtimeProcessor._running
    worker_pc,         \* each _processing_worker: "run" (in wait_for) or "stopped"
    worker_job,        \* per worker: the job queue.get() has returned inside
                       \* wait_for, the worker not yet resumed with it (or NoJob)
    handler_pc,        \* _result_handler: "run" (in wait_for), "send" (in
                       \* websocket.send), "backoff" (in the sleep of its except
                       \* clause) or "stopped"
    handler_result,    \* the result queue.get() has returned inside wait_for, the
                       \* handler not yet resumed with it (or NoneResult)
    handler_cancel,    \* stop() has cancelled the handler and the CancelledError
                       \* has not been delivered yet
    end_waiting,       \* per session id: end_session calls suspended in asyncio.sleep(1.0)
    end_closing,       \* per session id: end_session calls suspended in
                       \* session.websocket.close() (line 455)
    held_websocket,    \* per session id: the session object has left the
                       \* registry with its websocket set, and suspended
                       \* end_session calls still hold the object
    chunks_accepted,   \* number of chunks accepted so far, over all sessions
    end_calls,         \* number of end_session calls that were suspended or
                       \* that ended with an exception of close()
    stop_pc,           \* where RealtimeProcessor.stop is: "none", "gather" (line
                       \* 90), "close" (line 96), "done" or "raised"
    stop_iter,         \* the loop of stop() over self.sessions.values() while it
                       \* is suspended in websocket.close(): the session it is
                       \* at, the size of the registry when the loop began and
                       \* the number of entries the iterator still expects
    \* ---- history variables (observations, not program state) ----
    pushed,            \* every job put on processing_queue, in order, as it was then
    handler_log,       \* every result _result_handler has taken, in order, with
                       \* what became of it
    end_returned       \* per session id: how the end_session calls that found the
                       \* session have ended so far ("summary", "KeyError" or
                       \* "close_raised")

agentVars == <<tasks, max_concurrent, task_queue, active_tasks, completed_tasks,
               quality_metrics, shutdown_flag, loop_pc, loop_task, shutdown_pc,
               shutdown_all_pc, tasks_submitted, attempts, submitted, valid>>

rtVars == <<sessions, sessions_created, processing_queue, result_queue, running,
            worker_pc, worker_job, handler_pc, handler_result, handler_cancel,
            end_waiting, end_closing, held_websocket, chunks_accepted,
            end_calls, pushed, end_returned, handler_log, stop_pc, stop_iter>>

vars == <<agentVars, rtVars>>

TaskIds == 1..Len(tasks)

----------------------------------------------------------------------------
(***************************************************************************)
(* BaseAgent                                                               *)
(***************************************************************************)

\* add_task, lines 94-103: the index the new task is inserted before: the first
\* entry whose priority is strictly lower; Len + 1 when there is none (append).
InsertIndex(q, priority) ==
    IF \E i \in 1..Len(q) : priority > tasks[q[i]].priority
    THEN CHOOSE i \in 1..Len(q) :
            /\ priority > tasks[q[i]].priority
            /\ \A j \in 1..(i - 1) : ~(priority > tasks[q[j]].priority)
    ELSE Len(q) + 1

\* list.insert(i, x) with 1-based i
InsertAt(q, i, x) == SubSeq(q, 1, i - 1) \o <<x>> \o SubSeq(q, i, Len(q))

\* Faulty variant of add_task: the return after a failed validation is missing,
\* so the task marked ERROR is inserted into the queue all the same.
add_task_NoReturn(a, data, priority) ==
    LET id == Len(tasks) + 1
        task == [agent_type |-> a, priority |-> priority, status |-> "idle",
                 result |-> NoResult, error |-> NoError, retry_count |-> 0]
    IN  /\ attempts' = Append(attempts, 0)
        /\ submitted' = Append(submitted, priority)
        /\ valid' = Append(valid, validate_input(a, data))
        /\ tasks' = IF ~validate_input(a, data)
                    THEN Append(tasks, [task EXCEPT !.status = "error",
                                                    !.error = InvalidInputError])
                    ELSE Append(tasks, task)
        /\ task_queue' = [task_queue EXCEPT
                ![a] = InsertAt(@, InsertIndex(@, priority), id)]

\* Faulty variant of add_task: the pending queue is one list shared by every
\* agent (a class attribute instead of the per-instance list of __init__), so
\* the insertion shows in the queue of each of them.
add_task_SharedQueue(a, data, priority) ==
    LET id == Len(tasks) + 1
        task == [agent_type |-> a, priority |-> priority, status |-> "idle",
                 result |-> NoResult, error |-> NoError, retry_count |-> 0]
    IN  /\ attempts' = Append(attempts, 0)
        /\ submitted' = Append(submitted, priority)
        /\ valid' = Append(valid, validate_input(a, data))
        /\ IF ~validate_input(a, data)
           THEN /\ tasks' = Append(tasks, [task EXCEPT !.status = "error",
                                                       !.error = InvalidInputError])
                /\ UNCHANGED task_queue
           ELSE /\ tasks' = Append(tasks, task)
                /\ task_queue' = [b \in DOMAIN task_queue |->
                        InsertAt(task_queue[b],
                                 InsertIndex(task_queue[b], priority), id)]

\* BaseAgent.add_task: creates the Task; an invalid payload leaves it in ERROR
\* and returns before it is stored anywhere; a valid one is inserted by priority.
add_task(a, data, priority) ==
    LET id == Len(tasks) + 1
        task == [agent_type |-> a, priority |-> priority, status |-> "idle",
                 result |-> NoResult, error |-> NoError, retry_count |-> 0]
    IN  /\ attempts' = Append(attempts, 0)
        /\ submitted' = Append(submitted, priority)
        /\ valid' = Append(valid, validate_input(a, data))
        /\ IF ~validate_input(a, data)
           THEN /\ tasks' = Append(tasks, [task EXCEPT !.status = "error",
                                                       !.error = InvalidInputError])
                /\ UNCHANGED task_queue
           ELSE /\ tasks' = Append(tasks, task)
                /\ task_queue' = [task_queue EXCEPT
                        ![a] = InsertAt(@, InsertIndex(@, priority), id)]

\* BaseAgent._check_completed_tasks: moves the COMPLETED / ERROR tasks of the
\* given active set to completed_tasks; yields the new <<active, completed>>.
RECURSIVE SetToSeq(_)
SetToSeq(S) == IF S = {} THEN <<>>
               ELSE LET x == CHOOSE y \in S : \A z \in S : y <= z
                    IN  <<x>> \o SetToSeq(S \ {x})

check_completed_tasks(active, completed, ts) ==
    LET completed_ids == {t \in active : ts[t].status \in {"completed", "error"}}
    IN  <<active \ completed_ids, completed \o SetToSeq(completed_ids)>>

\* BaseAgent._update_quality_metrics
update_quality_metrics(m, score) == [count |-> m.count + 1, sum |-> m.sum + score]

\* x in s, for a list s
InSeq(s, x) == \E i \in 1..Len(s) : s[i] = x

\* BaseAgent.get_task_status: active set, then history, then pending queue;
\* the id of the task found, 0 for None.
get_task_status(a, task_id) ==
    IF task_id \in active_tasks[a] THEN task_id
    ELSE IF InSeq(completed_tasks[a], task_id) THEN task_id
    ELSE IF InSeq(task_queue[a], task_id) THEN task_id
    ELSE 0

----------------------------------------------------------------------------
(***************************************************************************)
(* AgentManager.submit_task                                                *)
(***************************************************************************)
\* submit_task, lines 760-761: the task type is not routed, ValueError("Unknown
\* task type: ...") is raised.
submit_task_raises(task_type) == task_type \notin DOMAIN task_routing

\* Faulty variant of submit_task: the call for an unknown task type is counted
\* before the error is raised.
submit_task_CountsUnknown(task_type, data, priority) ==
    IF submit_task_raises(task_type)
    THEN /\ tasks_submitted' = tasks_submitted + 1
         /\ UNCHANGED <<tasks, max_concurrent, task_queue, active_tasks,
                        completed_tasks, quality_metrics, shutdown_flag,
                        loop_pc, loop_task, shutdown_pc, shutdown_all_pc,
                        attempts, submitted, valid, rtVars>>
    ELSE /\ add_task(task_routing[task_type], data, priority)
         /\ tasks_submitted' = tasks_submitted + 1
         /\ UNCHANGED <<max_concurrent, active_tasks, completed_tasks,
                        quality_metrics, shutdown_flag, loop_pc, loop_task,
                        shutdown_pc, shutdown_all_pc,
                        rtVars>>

\* Faulty variant of submit_task: only a call whose payload passes validation
\* is counted.
submit_task_CountsValidOnly(task_type, data, priority) ==
    IF submit_task_raises(task_type)
    THEN UNCHANGED vars
    ELSE /\ add_task(task_routing[task_type], data, priority)
         /\ tasks_submitted' = IF validate_input(task_routing[task_type], data)
                               THEN tasks_submitted + 1
                               ELSE tasks_submitted
         /\ UNCHANGED <<max_concurrent, active_tasks, completed_tasks,
                        quality_metrics, shutdown_flag, loop_pc, loop_task,
                        shutdown_pc, shutdown_all_pc,
                        rtVars>>

\* The handler: routing, add_task on the routed agent, the global counter.
submit_task(task_type, data, priority) ==
    IF submit_task_raises(task_type)
    THEN \* raise ValueError
         UNCHANGED vars
    ELSE /\ add_task(task_routing[task_type], data, priority)
         /\ tasks_submitted' = tasks_submitted + 1
         /\ UNCHANGED <<max_concurrent, active_tasks, completed_tasks,
                        quality_metrics, shutdown_flag, loop_pc, loop_task,
                        shutdown_pc, shutdown_all_pc,
                        rtVars>>

\* A submit_task call, while fewer than MaxTasks Task objects exist.
SubmitTask(task_type, data, priority) ==
    /\ Len(tasks) < MaxTasks
    /\ submit_task(task_type, data, priority)

\* A submit_task call for the transcription agent with a valid payload, while
\* fewer than MaxQueueTasks Task objects exist.
SubmitTranscribe(priority) ==
    /\ Len(tasks) < MaxQueueTasks
    /\ submit_task("transcribe", {"audio_path"}, priority)

(***************************************************************************)
(* BaseAgent.start: the scheduling loop.  It is suspended either in        *)
(* asyncio.sleep at the end of an iteration ("sleep") or, inside           *)
(* _execute_task, in the await of process_task ("execute").                *)
(***************************************************************************)

\* Faulty variant of HasCapacity: the capacity test is off by one.
HasCapacity_OffByOne(a) ==
    Cardinality(active_tasks[a]) <= max_concurrent[a] /\ task_queue[a] # <<>>

\* start, line 116: the test that lets the loop start a task.
HasCapacity(a) ==
    Cardinality(active_tasks[a]) < max_concurrent[a] /\ task_queue[a] # <<>>

\* Faulty variant of LoopDequeue: the loop does not test _shutdown before it
\* starts an iteration.
LoopDequeue_IgnoresShutdown(a) ==
    /\ loop_pc[a] = "sleep"
    /\ HasCapacity(a)
    /\ LET task == Head(task_queue[a])
       IN  /\ task_queue' = [task_queue EXCEPT ![a] = Tail(@)]
           /\ tasks' = [tasks EXCEPT ![task].status = "processing"]
           /\ active_tasks' = [active_tasks EXCEPT ![a] = @ \cup {task}]
           /\ attempts' = [attempts EXCEPT ![task] = @ + 1]
           /\ loop_task' = [loop_task EXCEPT ![a] = task]
           /\ loop_pc' = [loop_pc EXCEPT ![a] = "execute"]
    /\ UNCHANGED <<max_concurrent, completed_tasks, quality_metrics,
                   shutdown_flag, shutdown_pc, tasks_submitted, submitted,
                   valid, shutdown_all_pc, rtVars>>

\* One iteration that finds capacity and a pending task: pops the head and runs
\* _execute_task up to the await of process_task (lines 116-118, 131-137).
LoopDequeue(a) ==
    /\ loop_pc[a] = "sleep"
    /\ ~shutdown_flag[a]
    /\ HasCapacity(a)
    /\ LET task == Head(task_queue[a])
       IN  /\ task_queue' = [task_queue EXCEPT ![a] = Tail(@)]
           /\ tasks' = [tasks EXCEPT ![task].status = "processing"]
           /\ active_tasks' = [active_tasks EXCEPT ![a] = @ \cup {task}]
           /\ attempts' = [attempts EXCEPT ![task] = @ + 1]
           /\ loop_task' = [loop_task EXCEPT ![a] = task]
           /\ loop_pc' = [loop_pc EXCEPT ![a] = "execute"]
    /\ UNCHANGED <<max_concurrent, completed_tasks, quality_metrics,
                   shutdown_flag, shutdown_pc, tasks_submitted, submitted,
                   valid, shutdown_all_pc, rtVars>>

\* One iteration that starts nothing: _check_completed_tasks, then sleep again.
LoopIdle(a) ==
    /\ loop_pc[a] = "sleep"
    /\ ~shutdown_flag[a]
    /\ ~HasCapacity(a)
    /\ LET r == check_completed_tasks(active_tasks[a], completed_tasks[a], tasks)
       IN  /\ active_tasks' = [active_tasks EXCEPT ![a] = r[1]]
           /\ completed_tasks' = [completed_tasks EXCEPT ![a] = r[2]]
    /\ UNCHANGED <<tasks, max_concurrent, task_queue, quality_metrics,
                   shutdown_flag, loop_pc, loop_task, shutdown_pc,
                   tasks_submitted, attempts, submitted, valid, shutdown_all_pc,
                   rtVars>>

\* while not self._shutdown: the loop ends.
LoopExit(a) ==
    /\ loop_pc[a] = "sleep"
    /\ shutdown_flag[a]
    /\ loop_pc' = [loop_pc EXCEPT ![a] = "stopped"]
    /\ UNCHANGED <<tasks, max_concurrent, task_queue, active_tasks,
                   completed_tasks, quality_metrics, shutdown_flag, loop_task,
                   shutdown_pc, tasks_submitted, attempts, submitted, valid,
                   shutdown_all_pc, rtVars>>

\* Faulty variant of FinishIteration without the finally clause: the task
\* stays in active_tasks until _check_completed_tasks reaps it.
FinishIteration_NoFinally(a, task, ts, queue, metrics) ==
    LET r == check_completed_tasks(active_tasks[a], completed_tasks[a], ts)
    IN  /\ tasks' = ts
        /\ task_queue' = [task_queue EXCEPT ![a] = queue]
        /\ quality_metrics' = [quality_metrics EXCEPT ![a] = metrics]
        /\ active_tasks' = [active_tasks EXCEPT ![a] = r[1]]
        /\ completed_tasks' = [completed_tasks EXCEPT ![a] = r[2]]
        /\ loop_task' = [loop_task EXCEPT ![a] = 0]
        /\ loop_pc' = [loop_pc EXCEPT ![a] = "sleep"]
        /\ UNCHANGED <<max_concurrent, shutdown_flag, shutdown_pc,
                       tasks_submitted, attempts, submitted, valid,
                       shutdown_all_pc, rtVars>>

\* The rest of the iteration once process_task is over: the finally clause of
\* _execute_task (the task leaves active_tasks), then _check_completed_tasks,
\* then the sleep.
FinishIteration(a, task, ts, queue, metrics) ==
    LET r == check_completed_tasks(active_tasks[a] \ {task}, completed_tasks[a], ts)
    IN  /\ tasks' = ts
        /\ task_queue' = [task_queue EXCEPT ![a] = queue]
        /\ quality_metrics' = [quality_metrics EXCEPT ![a] = metrics]
        /\ active_tasks' = [active_tasks EXCEPT ![a] = r[1]]
        /\ completed_tasks' = [completed_tasks EXCEPT ![a] = r[2]]
        /\ loop_task' = [loop_task EXCEPT ![a] = 0]
        /\ loop_pc' = [loop_pc EXCEPT ![a] = "sleep"]
        /\ UNCHANGED <<max_concurrent, shutdown_flag, shutdown_pc,
                       tasks_submitted, attempts, submitted, valid,
                       shutdown_all_pc, rtVars>>

\* process_task returned `result` within the timeout (lines 142-156).
ExecuteSuccess(a, result) ==
    /\ loop_pc[a] = "execute"
    /\ LET task == loop_task[a]
           quality_score == assess_quality(result)
           res == IF enable_quality_control
                  THEN [set |-> TRUE, returned |-> result,
                        quality_score |-> quality_score,
                        quality_warning |-> quality_score < confidence_threshold[a]]
                  ELSE [set |-> TRUE, returned |-> result, quality_score |-> 0,
                        quality_warning |-> FALSE]
           ts == [tasks EXCEPT ![task].result = res, ![task].status = "completed"]
           metrics == IF enable_quality_control
                      THEN update_quality_metrics(quality_metrics[a], quality_score)
                      ELSE quality_metrics[a]
       IN  FinishIteration(a, task, ts, task_queue[a], metrics)

\* Faulty variant of ExecuteTimeout: the task marked ERROR is put back on the
\* pending queue.
ExecuteTimeout_Requeues(a) ==
    /\ loop_pc[a] = "execute"
    /\ LET task == loop_task[a]
           ts == [tasks EXCEPT ![task].error = TimeoutError, ![task].status = "error"]
       IN  FinishIteration(a, task, ts, Append(task_queue[a], task),
                           quality_metrics[a])

\* asyncio.wait_for raised TimeoutError (lines 158-161): no retry.
ExecuteTimeout(a) ==
    /\ loop_pc[a] = "execute"
    /\ LET task == loop_task[a]
           ts == [tasks EXCEPT ![task].error = TimeoutError, ![task].status = "error"]
       IN  FinishIteration(a, task, ts, task_queue[a], quality_metrics[a])

\* Faulty variant of CanRetry: max_retries is not looked at.
CanRetry_Always(t) == t.retry_count >= 0

\* Faulty variant of CanRetry: one retry too many.
CanRetry_OffByOne(t) == t.retry_count <= max_retries

\* _execute_task, line 169: the retry test.
CanRetry(t) == t.retry_count < max_retries

\* Faulty variant of ExecuteException: the demotion has no floor at Low.
ExecuteException_NoFloor(a) ==
    /\ loop_pc[a] = "execute"
    /\ LET task == loop_task[a]
           t == tasks[task]
       IN  IF CanRetry(t)
           THEN LET ts == [tasks EXCEPT
                             ![task].retry_count = t.retry_count + 1,
                             ![task].status = "idle",
                             ![task].error = NoError,
                             ![task].priority = t.priority - 1]
                IN  FinishIteration(a, task, ts, Append(task_queue[a], task),
                                    quality_metrics[a])
           ELSE LET ts == [tasks EXCEPT ![task].error = CollaboratorError,
                                        ![task].status = "error"]
                IN  FinishIteration(a, task, ts, task_queue[a], quality_metrics[a])

\* Faulty variant of ExecuteException: the exception escapes and ends the loop.
ExecuteException_CrashesLoop(a) ==
    /\ loop_pc[a] = "execute"
    /\ loop_pc' = [loop_pc EXCEPT ![a] = "stopped"]
    /\ loop_task' = [loop_task EXCEPT ![a] = 0]
    /\ UNCHANGED <<tasks, max_concurrent, task_queue, active_tasks,
                   completed_tasks, quality_metrics, shutdown_flag, shutdown_pc,
                   tasks_submitted, attempts, submitted, valid, shutdown_all_pc,
                   rtVars>>

\* process_task raised (lines 163-178): retry with the priority lowered by one
\* and the task appended to the queue, or terminal ERROR.
ExecuteException(a) ==
    /\ loop_pc[a] = "execute"
    /\ LET task == loop_task[a]
           t == tasks[task]
       IN  IF CanRetry(t)
           THEN LET ts == [tasks EXCEPT
                             ![task].retry_count = t.retry_count + 1,
                             ![task].status = "idle",
                             ![task].error = NoError,
                             ![task].priority = Max(1, t.priority - 1)]
                IN  FinishIteration(a, task, ts, Append(task_queue[a], task),
                                    quality_metrics[a])
           ELSE LET ts == [tasks EXCEPT ![task].error = CollaboratorError,
                                        ![task].status = "error"]
                IN  FinishIteration(a, task, ts, task_queue[a], quality_metrics[a])

(***************************************************************************)
(* BaseAgent.shutdown                                                      *)
(***************************************************************************)
\* Sets the flag and tests active_tasks once: returns at once when it is empty.
ShutdownBegin(a) ==
    /\ shutdown_pc[a] = "none"
    /\ shutdown_flag' = [shutdown_flag EXCEPT ![a] = TRUE]
    /\ shutdown_pc' = [shutdown_pc EXCEPT ![a] =
                          IF active_tasks[a] # {} THEN "wait" ELSE "done"]
    /\ UNCHANGED <<tasks, max_concurrent, task_queue, active_tasks,
                   completed_tasks, quality_metrics, loop_pc, loop_task,
                   tasks_submitted, attempts, submitted, valid, shutdown_all_pc,
                   rtVars>>

\* Faulty variant of ShutdownWait: the wait ends although a task is active.
ShutdownWait_NoDrain(a) ==
    /\ shutdown_pc[a] = "wait"
    /\ shutdown_pc' = [shutdown_pc EXCEPT ![a] = "done"]
    /\ UNCHANGED <<tasks, max_concurrent, task_queue, active_tasks,
                   completed_tasks, quality_metrics, shutdown_flag, loop_pc,
                   loop_task, tasks_submitted, attempts, submitted, valid,
                   shutdown_all_pc, rtVars>>

\* Wakes from asyncio.sleep(0.1) and finds active_tasks empty.
ShutdownWait(a) ==
    /\ shutdown_pc[a] = "wait"
    /\ active_tasks[a] = {}
    /\ shutdown_pc' = [shutdown_pc EXCEPT ![a] = "done"]
    /\ UNCHANGED <<tasks, max_concurrent, task_queue, active_tasks,
                   completed_tasks, quality_metrics, shutdown_flag, loop_pc,
                   loop_task, tasks_submitted, attempts, submitted, valid,
                   shutdown_all_pc, rtVars>>

(***************************************************************************)
(* AgentManager.shutdown_all_agents: one shutdown() per registered agent,  *)
(* each in a task of its own (its steps are ShutdownBegin and              *)
(* ShutdownWait), then asyncio.gather over them.                           *)
(***************************************************************************)
\* Up to the await of gather: the shutdown tasks are created, none has run.
ShutdownAllBegin ==
    /\ shutdown_all_pc = "none"
    /\ \A a \in Agents : shutdown_pc[a] = "none"
    /\ shutdown_all_pc' = "gather"
    /\ UNCHANGED <<tasks, max_concurrent, task_queue, active_tasks,
                   completed_tasks, quality_metrics, shutdown_flag, loop_pc,
                   loop_task, shutdown_pc, tasks_submitted, attempts, submitted,
                   valid, rtVars>>

\* The first step of the shutdown task shutdown_all_agents created for agent a.
ShutdownTask(a) ==
    /\ shutdown_all_pc = "gather"
    /\ ShutdownBegin(a)

\* gather returns: every shutdown task is done.
ShutdownAllFinish ==
    /\ shutdown_all_pc = "gather"
    /\ \A a \in Agents : shutdown_pc[a] = "done"
    /\ shutdown_all_pc' = "done"
    /\ UNCHANGED <<tasks, max_concurrent, task_queue, active_tasks,
                   completed_tasks, quality_metrics, shutdown_flag, loop_pc,
                   loop_task, shutdown_pc, tasks_submitted, attempts, submitted,
                   valid, rtVars>>

----------------------------------------------------------------------------
(***************************************************************************)
(* realtime_processor.py                                                   *)
(***************************************************************************)
\* Bounds of the real-time model.
\* create_session calls over a run.
MaxSessions == 2
\* add_audio_chunk calls accepted over a run.
MaxChunks == 5
\* end_session calls that are suspended, or end with an exception of the
\* websocket's close(), over a run.
MaxEndCalls == 2
\* SpecRing: chunks a session is sent beyond the capacity of its audio buffer.
MaxRingChunks == 2
\* SpecWS: add_audio_chunk calls accepted over a run.
MaxWSChunks == 4

\* config["min_chunks_for_processing"]
min_chunks_for_processing == 4
\* RealtimeSession.audio_buffer: deque(maxlen=100)
audio_buffer_maxlen == 100
\* RealtimeSession.transcript_buffer: deque(maxlen=50)
transcript_buffer_maxlen == 50
\* RealtimeProcessor.start: range(3) processing workers
NumWorkers == 3
\* _process_audio_chunks: less combined audio than this is not transcribed
MinAudioBytes == 1000
\* _process_audio_chunks: a stripped transcript shorter than this is dropped
MinTranscriptLen == 3

Workers == 1..NumWorkers

\* len(audio_data) of the chunks a caller sends.
ChunkSizes == {100, 4000}

\* What transcribe_whisper may return: a text, as its list of words.
Transcripts == { <<>>, <<"hi">>, <<"hello", "world">> }

\* Variant of DequeAppend for a deque without maxlen: nothing is dropped.
DequeAppend_Unbounded(buf, x, maxlen) == Append(buf, x)

\* collections.deque.append with maxlen: the oldest entry is dropped when full.
DequeAppend(buf, x, maxlen) ==
    IF Len(buf) >= maxlen THEN Tail(buf) \o <<x>> ELSE Append(buf, x)

RECURSIVE SumSizes(_)
SumSizes(chunks) ==
    IF chunks = <<>> THEN 0 ELSE Head(chunks).size + SumSizes(Tail(chunks))

\* len(transcript.strip()): the words joined by single spaces.
RECURSIVE StrippedLen(_)
StrippedLen(words) ==
    IF words = <<>> THEN 0
    ELSE Len(Head(words)) + (IF Len(words) > 1 THEN 1 ELSE 0) + StrippedLen(Tail(words))

\* RealtimeProcessor._calculate_confidence, in hundredths; long_speech: the VAD
\* segments add up to more than one second.
calculate_confidence(words, long_speech) ==
    IF StrippedLen(words) = 0 THEN 0
    ELSE LET word_count == Len(words)
             c1 == 70 + (IF word_count > 10 THEN 10 ELSE 0)
             c2 == c1 + (IF word_count > 20 THEN 10 ELSE 0)
             c3 == c2 + (IF long_speech THEN 10 ELSE 0)
         IN  Min(95, c3)

\* RealtimeProcessor._process_audio_chunks: the result dict, or "None" when the
\* audio is too small, the transcription raises, or the text is empty/trivial.
NoneResult == [session_id |-> 0]

\* No job in the hands of a worker.
NoJob == [job |-> 0]

\* stop() is not in its loop over the sessions.
NoIter == [at |-> 0, len |-> 0, left |-> 0]

\* The test of the loops of _processing_worker and _result_handler, "while
\* self._running" (lines 169, 337), once an iteration is over.
NextIteration == IF running THEN "run" ELSE "stopped"

\* Faulty variant: an empty or trivial text is not dropped.
process_audio_chunks_KeepsTrivial(job, raises, words, long_speech) ==
    IF SumSizes(job.audio_chunks) < MinAudioBytes THEN NoneResult
    ELSE IF raises THEN NoneResult
    ELSE [session_id |-> job.session_id,
          transcript |-> words,
          confidence |-> calculate_confidence(words, long_speech),
          audio_bytes |-> SumSizes(job.audio_chunks),
          word_count |-> Len(words),
          job |-> job.job]

\* Variant that counts characters, len(transcript), instead of words.
process_audio_chunks_CountsChars(job, raises, words, long_speech) ==
    IF SumSizes(job.audio_chunks) < MinAudioBytes THEN NoneResult
    ELSE IF raises THEN NoneResult
    ELSE IF StrippedLen(words) < MinTranscriptLen THEN NoneResult
    ELSE [session_id |-> job.session_id,
          transcript |-> words,
          confidence |-> calculate_confidence(words, long_speech),
          audio_bytes |-> SumSizes(job.audio_chunks),
          word_count |-> StrippedLen(words),
          job |-> job.job]

process_audio_chunks(job, raises, words, long_speech) ==
    IF SumSizes(job.audio_chunks) < MinAudioBytes THEN NoneResult
    ELSE IF raises THEN NoneResult
    ELSE IF StrippedLen(words) < MinTranscriptLen THEN NoneResult
    ELSE [session_id |-> job.session_id,
          transcript |-> words,
          confidence |-> calculate_confidence(words, long_speech),
          audio_bytes |-> SumSizes(job.audio_chunks),
          word_count |-> Len(words),
          job |-> job.job]

\* RealtimeProcessor._update_session_metrics.  The dict is modelled as a function
\* from its keys; "avg_confidence" holds avg_confidence * total_chunks, so that
\* the incremental mean stays in the integers.
EmptyMetrics == [k \in {} |-> 0]

FreshMetrics == [k \in {"avg_confidence", "total_chunks", "avg_processing_time",
                        "total_words"} |-> 0]

update_session_metrics(m, result) ==
    LET metrics == IF "quality_metrics" \notin DOMAIN m THEN FreshMetrics ELSE m
    IN  [metrics EXCEPT !["avg_confidence"] = @ + result.confidence,
                        !["total_words"] = @ + result.word_count,
                        !["total_chunks"] = @ + 1]

\* RealtimeProcessor._trigger_processing: the queue after the call.  The job
\* holds a copy of the buffer (list(session.audio_buffer)).  Two of its fields
\* are not in the code: job numbers the jobs in the order they are pushed, and
\* flush tells the jobs end_session pushes (the session is inactive by then)
\* from those add_audio_chunk pushes (only for an active session).
trigger_processing(queue, session_id, ss) ==
    LET audio_chunks == ss[session_id].audio_buffer
    IN  IF audio_chunks = <<>> THEN queue
        ELSE Append(queue, [session_id |-> session_id,
                            audio_chunks |-> audio_chunks,
                            job |-> Len(pushed) + 1,
                            flush |-> ~ss[session_id].is_active])

\* The history of pushed jobs follows the queue.
Record(queue) ==
    IF Len(queue) > Len(processing_queue)
    THEN Append(pushed, queue[Len(queue)])
    ELSE pushed

\* RealtimeProcessor.create_session
CreateSession ==
    /\ sessions_created < MaxSessions
    /\ LET session_id == sessions_created + 1
       IN  sessions' = [s \in DOMAIN sessions \cup {session_id} |->
                          IF s = session_id
                          THEN [is_active |-> TRUE, websocket |-> FALSE,
                                audio_buffer |-> <<>>,
                                transcript_buffer |-> <<>>, last_activity |-> 0,
                                quality_metrics |-> EmptyMetrics]
                          ELSE sessions[s]]
    /\ sessions_created' = sessions_created + 1
    /\ UNCHANGED <<processing_queue, result_queue, running, worker_pc,
                   worker_job, handler_pc, handler_result, handler_cancel,
                   end_waiting, end_closing, held_websocket, chunks_accepted,
                   end_calls, pushed, end_returned, agentVars, handler_log,
                   stop_pc, stop_iter>>

\* Faulty variant of ShouldTrigger: the threshold test is strict.
ShouldTrigger_Strict(audio_buffer) == Len(audio_buffer) > min_chunks_for_processing

\* add_audio_chunk, line 141: the test that triggers processing.
ShouldTrigger(audio_buffer) == Len(audio_buffer) >= min_chunks_for_processing

\* Faulty variant of add_audio_chunk_returns: is_active is not tested.
add_audio_chunk_returns_NoActiveTest(session_id) ==
    session_id \in DOMAIN sessions

\* What add_audio_chunk returns (lines 121-128, 144): False for an unknown
\* session id and for a session that is not active, True otherwise.
add_audio_chunk_returns(session_id) ==
    IF session_id \notin DOMAIN sessions THEN FALSE
    ELSE IF ~sessions[session_id].is_active THEN FALSE
    ELSE TRUE

\* Faulty variant of add_audio_chunk for jobs that hold the buffer itself and
\* not a copy of it: the pending jobs of the session see the new chunk and the
\* eviction.
add_audio_chunk_SharesBuffer(session_id, size) ==
    IF ~add_audio_chunk_returns(session_id)
    THEN UNCHANGED vars
    ELSE LET now == sessions[session_id].last_activity + 1
             chunk_data == [timestamp |-> now, size |-> size]
             ss == [sessions EXCEPT
                      ![session_id].audio_buffer =
                          DequeAppend(@, chunk_data, audio_buffer_maxlen),
                      ![session_id].last_activity = now]
             shared == [i \in 1..Len(processing_queue) |->
                          IF processing_queue[i].session_id = session_id
                          THEN [processing_queue[i] EXCEPT
                                  !.audio_chunks = ss[session_id].audio_buffer]
                          ELSE processing_queue[i]]
             queue == IF ShouldTrigger(ss[session_id].audio_buffer)
                      THEN trigger_processing(shared, session_id, ss)
                      ELSE shared
         IN  /\ sessions' = ss
             /\ processing_queue' = queue
             /\ pushed' = Record(queue)
             /\ chunks_accepted' = chunks_accepted + 1
             /\ UNCHANGED <<sessions_created, result_queue, running, worker_pc,
                            worker_job, handler_pc, handler_result,
                            handler_cancel, end_waiting, end_closing,
                            held_websocket, end_calls, end_returned, agentVars,
                            handler_log, stop_pc, stop_iter>>

\* RealtimeProcessor.add_audio_chunk.  Time is per session: the timestamp of a
\* chunk, and last_activity, is the chunk's arrival number in its session.
add_audio_chunk(session_id, size) ==
    IF ~add_audio_chunk_returns(session_id)
    THEN \* return False
         UNCHANGED vars
    ELSE LET now == sessions[session_id].last_activity + 1
             chunk_data == [timestamp |-> now, size |-> size]
             ss == [sessions EXCEPT
                      ![session_id].audio_buffer =
                          DequeAppend(@, chunk_data, audio_buffer_maxlen),
                      ![session_id].last_activity = now]
             queue == IF ShouldTrigger(ss[session_id].audio_buffer)
                      THEN trigger_processing(processing_queue, session_id, ss)
                      ELSE processing_queue
         IN  /\ sessions' = ss
             /\ processing_queue' = queue
             /\ pushed' = Record(queue)
             /\ chunks_accepted' = chunks_accepted + 1
             /\ UNCHANGED <<sessions_created, result_queue, running, worker_pc,
                            worker_job, handler_pc, handler_result,
                            handler_cancel, end_waiting, end_closing,
                            held_websocket, end_calls, end_returned, agentVars,
                            handler_log, stop_pc, stop_iter>>

\* add_audio_chunk while fewer than MaxChunks chunks have been accepted.
AddChunk(session_id, size) ==
    /\ chunks_accepted < MaxChunks
    /\ add_audio_chunk(session_id, size)

\* queue.get() returns a job inside the wait_for of a worker (lines 172-175):
\* the job leaves processing_queue, and the worker is resumed with it some
\* callbacks later.  The inner task of wait_for may be scheduled ahead of the
\* delivery of a cancellation, so this step does not depend on _running.
WorkerGet(w) ==
    /\ worker_pc[w] = "run"
    /\ worker_job[w] = NoJob
    /\ processing_queue # <<>>
    /\ worker_job' = [worker_job EXCEPT ![w] = Head(processing_queue)]
    /\ processing_queue' = Tail(processing_queue)
    /\ UNCHANGED <<sessions, sessions_created, result_queue, running, worker_pc,
                   handler_pc, handler_result, handler_cancel, end_waiting,
                   end_closing, held_websocket, chunks_accepted, end_calls,
                   pushed, end_returned, agentVars, handler_log, stop_pc,
                   stop_iter>>

\* The worker is resumed with the job wait_for returns (lines 177-187):
\* it processes the job, puts the result, if any, on result_queue, and tests
\* _running.  Nothing in it suspends (transcribe_whisper is a blocking call).
\* Workers that hold jobs are resumed in either order: a worker whose wait_for
\* leaves through its timeout finds the job its get has returned and goes on
\* ahead of a worker whose get returned earlier.
\* A worker cancelled by stop() with a job in hand is resumed in the same way:
\* wait_for returns the job and the cancellation is lost.
Worker(w, raises, words, long_speech) ==
    /\ worker_pc[w] = "run"
    /\ worker_job[w] # NoJob
    /\ LET result == process_audio_chunks(worker_job[w], raises, words, long_speech)
       IN  result_queue' = IF result # NoneResult
                           THEN Append(result_queue, result)
                           ELSE result_queue
    /\ worker_job' = [worker_job EXCEPT ![w] = NoJob]
    /\ worker_pc' = [worker_pc EXCEPT ![w] = NextIteration]
    /\ UNCHANGED <<sessions, sessions_created, processing_queue, running,
                   handler_pc, handler_result, handler_cancel, end_waiting,
                   end_closing, held_websocket, chunks_accepted, end_calls,
                   pushed, end_returned, agentVars, handler_log, stop_pc,
                   stop_iter>>

\* The entry of the history for a result and what became of it.
Outcome(result, outcome) ==
    [session_id |-> result.session_id, job |-> result.job, outcome |-> outcome]

\* queue.get() returns a result inside the wait_for of the handler (lines
\* 340-343): the result leaves result_queue, and the handler is resumed with
\* it some callbacks later.  As for WorkerGet, the step does not depend on
\* _running.
HandlerGet ==
    /\ handler_pc = "run"
    /\ handler_result = NoneResult
    /\ result_queue # <<>>
    /\ handler_result' = Head(result_queue)
    /\ result_queue' = Tail(result_queue)
    /\ UNCHANGED <<sessions, sessions_created, processing_queue, running,
                   worker_pc, worker_job, handler_pc, handler_cancel,
                   end_waiting, end_closing, held_websocket, chunks_accepted,
                   end_calls, pushed, end_returned, agentVars, handler_log,
                   stop_pc, stop_iter>>

\* The session of the result the handler is resumed with has a subscriber:
\* session_id in self.sessions and session.websocket is set.
HasSubscriber ==
    /\ handler_result # NoneResult
    /\ handler_result.session_id \in DOMAIN sessions
    /\ sessions[handler_result.session_id].websocket

\* Faulty variant of HandleResult without the test "session_id in
\* self.sessions": the lookup of an ended session raises KeyError, which the
\* outer except clause catches.
HandleResult_NoRegistryTest ==
    /\ handler_pc = "run"
    /\ handler_result # NoneResult
    /\ ~HasSubscriber
    /\ LET result == handler_result
           session_id == result.session_id
       IN  IF session_id \in DOMAIN sessions
           THEN /\ sessions' = [sessions EXCEPT
                      ![session_id].transcript_buffer =
                          DequeAppend(@, result, transcript_buffer_maxlen),
                      ![session_id].quality_metrics =
                          update_session_metrics(@, result)]
                /\ handler_log' = Append(handler_log, Outcome(result, "stored"))
                /\ handler_pc' = NextIteration
           ELSE /\ UNCHANGED sessions
                /\ handler_log' = Append(handler_log, Outcome(result, "discarded"))
                /\ handler_pc' = "backoff"
    /\ handler_result' = NoneResult
    /\ handler_cancel' = FALSE
    /\ UNCHANGED <<sessions_created, processing_queue, result_queue, running,
                   worker_pc, worker_job, end_waiting, end_closing,
                   held_websocket, chunks_accepted, end_calls, pushed,
                   end_returned, agentVars, stop_pc, stop_iter>>

\* The handler is resumed with a result for a session without a subscriber,
\* or for a session that is not in the registry (lines 343-352): the fragment
\* is stored and the metrics are updated, or the result is dropped; then the
\* handler tests _running.  A handler cancelled by stop() with a result in
\* hand is resumed in the same way: wait_for returns the result and the
\* cancellation is lost.
HandleResult ==
    /\ handler_pc = "run"
    /\ handler_result # NoneResult
    /\ ~HasSubscriber
    /\ LET result == handler_result
           session_id == result.session_id
       IN  IF session_id \in DOMAIN sessions
           THEN /\ sessions' = [sessions EXCEPT
                      ![session_id].transcript_buffer =
                          DequeAppend(@, result, transcript_buffer_maxlen),
                      ![session_id].quality_metrics =
                          update_session_metrics(@, result)]
                /\ handler_log' = Append(handler_log, Outcome(result, "stored"))
           ELSE /\ UNCHANGED sessions
                /\ handler_log' = Append(handler_log, Outcome(result, "discarded"))
    /\ handler_result' = NoneResult
    /\ handler_cancel' = FALSE
    /\ handler_pc' = NextIteration
    /\ UNCHANGED <<sessions_created, processing_queue, result_queue, running,
                   worker_pc, worker_job, end_waiting, end_closing,
                   held_websocket, chunks_accepted, end_calls, pushed,
                   end_returned, agentVars, stop_pc, stop_iter>>

\* What the test "not session.websocket.closed" (line 357) can do: the object
\* main.py attaches is the framework's WebSocket, and the attribute is that of
\* the websockets package.
ClosedTests == {"False", "True", "AttributeError"}

\* The handler is resumed with a result for a session with a subscriber, up to
\* its next suspension: the fragment is stored and the metrics are updated,
\* then the handler is suspended in websocket.send (closed is False), or goes
\* on to its test of _running (closed is True), or is suspended in the sleep
\* of the outer except clause (the test raises).
HandleResultSend(closed) ==
    /\ handler_pc = "run"
    /\ HasSubscriber
    /\ LET result == handler_result
           session_id == result.session_id
       IN  /\ sessions' = [sessions EXCEPT
                    ![session_id].transcript_buffer =
                        DequeAppend(@, result, transcript_buffer_maxlen),
                    ![session_id].quality_metrics =
                        update_session_metrics(@, result)]
           /\ handler_log' = Append(handler_log,
                  Outcome(result, CASE closed = "False" -> "sending"
                                    [] closed = "True" -> "stored"
                                    [] OTHER -> "closed_raised"))
           /\ handler_pc' = CASE closed = "False" -> "send"
                              [] closed = "True" -> NextIteration
                              [] OTHER -> "backoff"
    /\ handler_result' = NoneResult
    /\ handler_cancel' = FALSE
    /\ UNCHANGED <<sessions_created, processing_queue, result_queue, running,
                   worker_pc, worker_job, end_waiting, end_closing,
                   held_websocket, chunks_accepted, end_calls, pushed,
                   end_returned, agentVars, stop_pc, stop_iter>>

\* Faulty variant of SendEnds: a failed send ends the handler.
SendEnds_FailureStopsHandler(sent) ==
    /\ handler_pc = "send"
    /\ ~handler_cancel
    /\ handler_log' = [handler_log EXCEPT ![Len(handler_log)].outcome =
                          IF sent THEN "sent" ELSE "send_raised"]
    /\ handler_pc' = IF sent THEN NextIteration ELSE "stopped"
    /\ UNCHANGED <<sessions, sessions_created, processing_queue, result_queue,
                   running, worker_pc, worker_job, handler_result,
                   handler_cancel, end_waiting, end_closing, held_websocket,
                   chunks_accepted, end_calls, pushed, end_returned, agentVars,
                   stop_pc, stop_iter>>

\* websocket.send returns, or raises an exception that the inner except clause
\* logs (lines 358-364); the handler goes to its test of _running.  A send
\* that stop() has cancelled ends in HandlerExit instead.
SendEnds(sent) ==
    /\ handler_pc = "send"
    /\ ~handler_cancel
    /\ handler_log' = [handler_log EXCEPT ![Len(handler_log)].outcome =
                          IF sent THEN "sent" ELSE "send_raised"]
    /\ handler_pc' = NextIteration
    /\ UNCHANGED <<sessions, sessions_created, processing_queue, result_queue,
                   running, worker_pc, worker_job, handler_result,
                   handler_cancel, end_waiting, end_closing, held_websocket,
                   chunks_accepted, end_calls, pushed, end_returned, agentVars,
                   stop_pc, stop_iter>>

\* The sleep of the outer except clause (lines 368-370) is over; the handler
\* goes to its test of _running.
Backoff ==
    /\ handler_pc = "backoff"
    /\ ~handler_cancel
    /\ handler_pc' = NextIteration
    /\ UNCHANGED <<sessions, sessions_created, processing_queue, result_queue,
                   running, worker_pc, worker_job, handler_result,
                   handler_cancel, end_waiting, end_closing, held_websocket,
                   chunks_accepted, end_calls, pushed, end_returned,
                   handler_log, agentVars, stop_pc, stop_iter>>

\* main.py, websocket_endpoint: the endpoint attaches its websocket to a
\* session of the registry (line 396).
Attach(session_id) ==
    /\ session_id \in DOMAIN sessions
    /\ ~sessions[session_id].websocket
    /\ sessions' = [sessions EXCEPT ![session_id].websocket = TRUE]
    /\ UNCHANGED <<sessions_created, processing_queue, result_queue, running,
                   worker_pc, worker_job, handler_pc, handler_result,
                   handler_cancel, end_waiting, end_closing, held_websocket,
                   chunks_accepted, end_calls, pushed, end_returned,
                   handler_log, agentVars, stop_pc, stop_iter>>

\* main.py, websocket_endpoint: the client disconnects and the finally clause
\* sets the websocket of the session to None (lines 429-431).
Detach(session_id) ==
    /\ session_id \in DOMAIN sessions
    /\ sessions[session_id].websocket
    /\ sessions' = [sessions EXCEPT ![session_id].websocket = FALSE]
    /\ UNCHANGED <<sessions_created, processing_queue, result_queue, running,
                   worker_pc, worker_job, handler_pc, handler_result,
                   handler_cancel, end_waiting, end_closing, held_websocket,
                   chunks_accepted, end_calls, pushed, end_returned,
                   handler_log, agentVars, stop_pc, stop_iter>>

\* end_session, lines 427-428: the lookup that decides between "return None"
\* and the rest of the call.
end_session_finds(session_id) == session_id \in DOMAIN sessions

\* What "await session.websocket.close()" (line 455) does when end_session
\* reaches it: the call is suspended in it, or close() returns or raises
\* without a suspension (the framework's WebSocket raises at once when a close
\* message has been sent before).
CloseOutcomes == {"suspends", "returns", "raises"}

\* session.websocket of the session object an end_session call holds (line
\* 454): the object is the one in the registry ss, or has left it.
session_websocket(session_id, ss) ==
    IF session_id \in DOMAIN ss THEN ss[session_id].websocket
    ELSE held_websocket[session_id]

\* The websocket of the removed session object matters as long as `others`
\* further end_session calls hold the object.
Held(websocket, others) == websocket /\ others > 0

\* end_session, lines 457-460: del self.sessions[session_id] removes the
\* session and the summary is returned; the del raises KeyError when another
\* call has removed the session meanwhile.
EndSessionDelete(session_id, ss, others) ==
    IF session_id \in DOMAIN ss
    THEN /\ sessions' = [s \in DOMAIN ss \ {session_id} |-> ss[s]]
         /\ end_returned' = [end_returned EXCEPT
                                ![session_id] = Append(@, "summary")]
         /\ held_websocket' = [held_websocket EXCEPT ![session_id] =
                                  Held(ss[session_id].websocket, others)]
    ELSE /\ sessions' = ss
         /\ end_returned' = [end_returned EXCEPT
                                ![session_id] = Append(@, "KeyError")]
         /\ held_websocket' = [held_websocket EXCEPT ![session_id] =
                                  Held(@, others)]

\* end_session, lines 453-460, for a call that holds the session object while
\* `others` further calls are suspended on it: with a websocket set the call
\* awaits its close(), in which it is suspended or which raises out of
\* end_session; otherwise, and when close() returns, the session is deleted.
EndSessionCleanUp(session_id, ss, close, others) ==
    IF session_websocket(session_id, ss) /\ close = "suspends"
    THEN /\ sessions' = ss
         /\ end_closing' = [end_closing EXCEPT ![session_id] = @ + 1]
         /\ UNCHANGED <<end_returned, held_websocket>>
    ELSE IF session_websocket(session_id, ss) /\ close = "raises"
    THEN /\ sessions' = ss
         /\ end_returned' = [end_returned EXCEPT
                                ![session_id] = Append(@, "close_raised")]
         /\ held_websocket' = [held_websocket EXCEPT ![session_id] =
                                  Held(@, others)]
         /\ UNCHANGED end_closing
    ELSE /\ EndSessionDelete(session_id, ss, others)
         /\ UNCHANGED end_closing

\* Faulty variant of EndSessionBegin: the buffered chunks are not flushed.
EndSessionBegin_NoFlush(session_id, close) ==
    IF ~end_session_finds(session_id)
    THEN \* return None
         UNCHANGED vars
    ELSE LET ss == [sessions EXCEPT ![session_id].is_active = FALSE]
         IN  IF ss[session_id].audio_buffer # <<>>
             THEN /\ end_calls < MaxEndCalls
                  /\ end_calls' = end_calls + 1
                  /\ sessions' = ss
                  /\ UNCHANGED <<processing_queue, pushed>>
                  /\ end_waiting' = [end_waiting EXCEPT ![session_id] = @ + 1]
                  /\ UNCHANGED <<sessions_created, result_queue, running,
                                 worker_pc, worker_job, handler_pc,
                                 handler_result, handler_cancel, end_closing,
                                 held_websocket, chunks_accepted,
                                 end_returned, agentVars, handler_log,
                                 stop_pc, stop_iter>>
             ELSE /\ EndSessionCleanUp(session_id, ss, close,
                        end_waiting[session_id] + end_closing[session_id])
                  /\ IF ss[session_id].websocket /\ close # "returns"
                     THEN /\ end_calls < MaxEndCalls
                          /\ end_calls' = end_calls + 1
                     ELSE UNCHANGED end_calls
                  /\ UNCHANGED <<sessions_created, processing_queue,
                                 result_queue, running, worker_pc, worker_job,
                                 handler_pc, handler_result, handler_cancel,
                                 end_waiting, chunks_accepted, pushed,
                                 agentVars, handler_log, stop_pc, stop_iter>>

\* RealtimeProcessor.end_session up to its first suspension or to its end: not
\* found; or the session is made inactive and, with audio buffered, a job is
\* pushed and the call sleeps; with none buffered the call goes on to its
\* clean-up (the summary it computes on the way changes nothing).
EndSessionBegin(session_id, close) ==
    IF ~end_session_finds(session_id)
    THEN \* return None
         UNCHANGED vars
    ELSE LET ss == [sessions EXCEPT ![session_id].is_active = FALSE]
         IN  IF ss[session_id].audio_buffer # <<>>
             THEN /\ end_calls < MaxEndCalls
                  /\ end_calls' = end_calls + 1
                  /\ sessions' = ss
                  /\ processing_queue' =
                        trigger_processing(processing_queue, session_id, ss)
                  /\ pushed' = Record(trigger_processing(processing_queue,
                                                         session_id, ss))
                  /\ end_waiting' = [end_waiting EXCEPT ![session_id] = @ + 1]
                  /\ UNCHANGED <<sessions_created, result_queue, running,
                                 worker_pc, worker_job, handler_pc,
                                 handler_result, handler_cancel, end_closing,
                                 held_websocket, chunks_accepted,
                                 end_returned, agentVars, handler_log,
                                 stop_pc, stop_iter>>
             ELSE /\ EndSessionCleanUp(session_id, ss, close,
                        end_waiting[session_id] + end_closing[session_id])
                  /\ IF ss[session_id].websocket /\ close # "returns"
                     THEN /\ end_calls < MaxEndCalls
                          /\ end_calls' = end_calls + 1
                     ELSE UNCHANGED end_calls
                  /\ UNCHANGED <<sessions_created, processing_queue,
                                 result_queue, running, worker_pc, worker_job,
                                 handler_pc, handler_result, handler_cancel,
                                 end_waiting, chunks_accepted, pushed,
                                 agentVars, handler_log, stop_pc, stop_iter>>

\* Faulty variant of EndSessionFinish: the session is not removed from the
\* registry.
EndSessionFinish_NoDelete(session_id, close) ==
    /\ end_waiting[session_id] > 0
    /\ end_waiting' = [end_waiting EXCEPT ![session_id] = @ - 1]
    /\ end_returned' = [end_returned EXCEPT ![session_id] = Append(@, "summary")]
    /\ UNCHANGED <<sessions, sessions_created, processing_queue, result_queue,
                   running, worker_pc, worker_job, handler_pc, handler_result,
                   handler_cancel, end_closing, held_websocket,
                   chunks_accepted, end_calls, pushed, agentVars, handler_log,
                   stop_pc, stop_iter>>

\* end_session after its sleep (lines 439-460), up to its next suspension or
\* to its end: the summary is computed from the session object the call
\* holds, then the call goes on to its clean-up.
EndSessionFinish(session_id, close) ==
    /\ end_waiting[session_id] > 0
    /\ end_waiting' = [end_waiting EXCEPT ![session_id] = @ - 1]
    /\ EndSessionCleanUp(session_id, sessions, close,
                         end_waiting[session_id] - 1 + end_closing[session_id])
    /\ UNCHANGED <<sessions_created, processing_queue, result_queue, running,
                   worker_pc, worker_job, handler_pc, handler_result,
                   handler_cancel, chunks_accepted, end_calls, pushed,
                   agentVars, handler_log, stop_pc, stop_iter>>

\* The close() an end_session call is suspended in returns, and the call goes
\* on to delete the session (lines 457-460), or it raises, and end_session
\* ends with that exception: the session stays in the registry, inactive.
EndSessionCloseEnds(session_id, closed) ==
    /\ end_closing[session_id] > 0
    /\ end_closing' = [end_closing EXCEPT ![session_id] = @ - 1]
    /\ LET others == end_waiting[session_id] + end_closing[session_id] - 1
       IN  IF closed
           THEN EndSessionDelete(session_id, sessions, others)
           ELSE /\ end_returned' = [end_returned EXCEPT
                                       ![session_id] = Append(@, "close_raised")]
                /\ held_websocket' = [held_websocket EXCEPT ![session_id] =
                                         Held(@, others)]
                /\ UNCHANGED sessions
    /\ UNCHANGED <<sessions_created, processing_queue, result_queue, running,
                   worker_pc, worker_job, handler_pc, handler_result,
                   handler_cancel, end_waiting, chunks_accepted, end_calls,
                   pushed, agentVars, handler_log, stop_pc, stop_iter>>

\* RealtimeProcessor.stop up to its await (lines 83-90): _running is cleared
\* and every worker and the handler, each suspended in an await, is cancelled.
StopRequest ==
    /\ running
    /\ stop_pc = "none"
    /\ running' = FALSE
    /\ stop_pc' = "gather"
    /\ handler_cancel' = TRUE
    /\ UNCHANGED <<sessions, sessions_created, processing_queue, result_queue,
                   worker_pc, worker_job, handler_pc, handler_result,
                   end_waiting, end_closing, held_websocket, chunks_accepted,
                   end_calls, pushed, end_returned, agentVars, handler_log,
                   stop_iter>>

\* A cancelled worker without a job in hand is resumed in its wait_for: the
\* CancelledError ends the task.
WorkerExit(w) ==
    /\ ~running
    /\ worker_pc[w] = "run"
    /\ worker_job[w] = NoJob
    /\ worker_pc' = [worker_pc EXCEPT ![w] = "stopped"]
    /\ UNCHANGED <<sessions, sessions_created, processing_queue, result_queue,
                   running, worker_job, handler_pc, handler_result,
                   handler_cancel, end_waiting, end_closing, held_websocket,
                   chunks_accepted, end_calls, pushed, end_returned, agentVars,
                   handler_log, stop_pc, stop_iter>>

\* The cancelled handler is resumed where it was suspended: in its wait_for
\* without a result in hand, in websocket.send (the send is abandoned) or in
\* the sleep of its except clause; the CancelledError ends the task.
HandlerExit ==
    /\ handler_cancel
    /\ \/ handler_pc = "run" /\ handler_result = NoneResult
       \/ handler_pc \in {"send", "backoff"}
    /\ handler_pc' = "stopped"
    /\ handler_cancel' = FALSE
    /\ handler_log' = IF handler_pc = "send"
                      THEN [handler_log EXCEPT ![Len(handler_log)].outcome =
                                                  "send_cancelled"]
                      ELSE handler_log
    /\ UNCHANGED <<sessions, sessions_created, processing_queue, result_queue,
                   running, worker_pc, worker_job, handler_result, end_waiting,
                   end_closing, held_websocket, chunks_accepted, end_calls,
                   pushed, end_returned, agentVars, stop_pc, stop_iter>>

\* stop(), lines 93-96: the sessions the iterator of self.sessions.values()
\* still finds after the session `from`.  The registry keeps the order in
\* which the sessions were created, which is the order of their ids.
After(from) == {s \in DOMAIN sessions : s > from}

\* The position of session s among them.
Rank(s, from) == Cardinality({t \in After(from) : t <= s})

\* stop(), lines 93-96: the first session after the session `from` that has a
\* websocket and that the iterator, which expects `left` more entries,
\* reaches (0: none).
NextSubscriber(from, left) ==
    LET S == {s \in After(from) : sessions[s].websocket /\ Rank(s, from) <= left}
    IN  IF S = {} THEN 0 ELSE CHOOSE s \in S : \A t \in S : s <= t

\* stop(), lines 93-96: the registry after the loop has gone on from the
\* session after `from` to its next await, or to its end: each session it
\* visits is made inactive.  The iterator yields no more than the `left`
\* entries it expects.
StopSweep(from, left) ==
    LET at == NextSubscriber(from, left)
    IN  [s \in DOMAIN sessions |->
            IF s > from /\ Rank(s, from) <= left /\ (at = 0 \/ s <= at)
            THEN [sessions[s] EXCEPT !.is_active = FALSE]
            ELSE sessions[s]]

\* The iterator finds an entry after the last one it expects: RuntimeError
\* "dictionary keys changed during iteration".
KeysChanged(from, left) ==
    /\ NextSubscriber(from, left) = 0
    /\ Cardinality(After(from)) > left

\* RealtimeProcessor.stop after its gather (lines 92-98): every task has
\* ended; the sessions are made inactive in the order of the registry, up to
\* the first one with a websocket, in whose close() the call is suspended.
StopFinish ==
    /\ stop_pc = "gather"
    /\ \A w \in Workers : worker_pc[w] = "stopped"
    /\ handler_pc = "stopped"
    /\ LET len == Cardinality(DOMAIN sessions)
           at == NextSubscriber(0, len)
       IN  /\ sessions' = StopSweep(0, len)
           /\ IF at = 0
              THEN stop_pc' = "done" /\ stop_iter' = NoIter
              ELSE /\ stop_pc' = "close"
                   /\ stop_iter' = [at |-> at, len |-> len,
                                    left |-> len - Rank(at, 0)]
    /\ UNCHANGED <<sessions_created, processing_queue, result_queue, running,
                   worker_pc, worker_job, handler_pc, handler_result,
                   handler_cancel, end_waiting, end_closing, held_websocket,
                   chunks_accepted, end_calls, pushed, end_returned,
                   agentVars, handler_log>>

\* websocket.close() (line 96) returns or raises.  An exception ends stop();
\* so does the RuntimeError of the dict iterator: at once when the registry
\* has changed its size meanwhile, and, when sessions were removed and as
\* many created, at the entry it finds after the last one it expects, the
\* sessions before that entry made inactive.  Otherwise the loop goes on to
\* its next await or to its end.
StopCloseEnds(closed) ==
    /\ stop_pc = "close"
    /\ LET from == stop_iter.at
           left == stop_iter.left
           at == NextSubscriber(from, left)
       IN  IF ~closed \/ Cardinality(DOMAIN sessions) # stop_iter.len
           THEN /\ stop_pc' = "raised"
                /\ stop_iter' = NoIter
                /\ UNCHANGED sessions
           ELSE /\ sessions' = StopSweep(from, left)
                /\ IF at # 0
                   THEN /\ stop_pc' = "close"
                        /\ stop_iter' = [stop_iter EXCEPT
                                            !.at = at,
                                            !.left = left - Rank(at, from)]
                   ELSE /\ stop_pc' = IF KeysChanged(from, left)
                                      THEN "raised" ELSE "done"
                        /\ stop_iter' = NoIter
    /\ UNCHANGED <<sessions_created, processing_queue, result_queue, running,
                   worker_pc, worker_job, handler_pc, handler_result,
                   handler_cancel, end_waiting, end_closing, held_websocket,
                   chunks_accepted, end_calls, pushed, end_returned,
                   agentVars, handler_log>>

\* The state after RealtimeProcessor() and start().
RTInit ==
    /\ sessions = [s \in {} |-> 0]
    /\ sessions_created = 0
    /\ processing_queue = <<>>
    /\ result_queue = <<>>
    /\ running = TRUE
    /\ worker_pc = [w \in Workers |-> "run"]
    /\ worker_job = [w \in Workers |-> NoJob]
    /\ handler_pc = "run"
    /\ handler_result = NoneResult
    /\ handler_cancel = FALSE
    /\ end_waiting = [s \in 1..MaxSessions |-> 0]
    /\ end_closing = [s \in 1..MaxSessions |-> 0]
    /\ held_websocket = [s \in 1..MaxSessions |-> FALSE]
    /\ chunks_accepted = 0
    /\ end_calls = 0
    /\ pushed = <<>>
    /\ end_returned = [s \in 1..MaxSessions |-> <<>>]
    /\ handler_log = <<>>
    /\ stop_pc = "none"
    /\ stop_iter = NoIter

\* add_audio_chunk of a client that streams chunks of one size: the chunk has
\* the size of the chunk before it in the session's audio buffer.
AddStreamChunk(session_id, size) ==
    /\ session_id \in DOMAIN sessions
    /\ LET audio_buffer == sessions[session_id].audio_buffer
       IN  audio_buffer # <<>> => size = audio_buffer[Len(audio_buffer)].size
    /\ AddChunk(session_id, size)

\* _process_audio_chunks for any outcome of the transcription: it raises, or
\* it returns one of Transcripts for a short or a long speech.
Transcribe(w) ==
    \/ Worker(w, TRUE, <<>>, FALSE)
    \/ \E words \in Transcripts, long_speech \in BOOLEAN :
          Worker(w, FALSE, words, long_speech)

RTNext ==
    \/ CreateSession
    \/ \E s \in 1..MaxSessions, size \in ChunkSizes : AddStreamChunk(s, size)
    \/ \E w \in Workers : WorkerGet(w)
    \/ \E w \in Workers : Transcribe(w)
    \/ HandlerGet
    \/ HandleResult
    \/ \E s \in 1..MaxSessions, close \in CloseOutcomes :
          EndSessionBegin(s, close)
    \/ \E s \in 1..MaxSessions, close \in CloseOutcomes :
          EndSessionFinish(s, close)

----------------------------------------------------------------------------
\* The state after AgentManager.initialize_agents and start_all_agents.  The
\* agents in A are constructed with any max_concurrent_tasks in 0..MaxCap, the
\* others with the value initialize_agents gives them.
DefaultMaxConcurrent == [a \in Agents |-> IF a = "transcription" THEN 3
                                          ELSE IF a = "analysis" THEN 5 ELSE 10]

AgentInit(A) ==
    /\ tasks = <<>>
    /\ max_concurrent \in {f \in [Agents -> 0..10] :
            \A a \in Agents : IF a \in A THEN f[a] <= MaxCap
                                          ELSE f[a] = DefaultMaxConcurrent[a]}
    /\ task_queue = [a \in Agents |-> <<>>]
    /\ active_tasks = [a \in Agents |-> {}]
    /\ completed_tasks = [a \in Agents |-> <<>>]
    /\ quality_metrics = [a \in Agents |-> [count |-> 0, sum |-> 0]]
    /\ shutdown_flag = [a \in Agents |-> FALSE]
    /\ loop_pc = [a \in Agents |-> "sleep"]
    /\ loop_task = [a \in Agents |-> 0]
    /\ shutdown_pc = [a \in Agents |-> "none"]
    /\ shutdown_all_pc = "none"
    /\ tasks_submitted = 0
    /\ attempts = <<>>
    /\ submitted = <<>>
    /\ valid = <<>>

\* The agent steps, for submissions of the task types TT and the loops of the
\* agents A.
AgentNext(TT, A) ==
    \/ \E tt \in TT, d \in Payloads, p \in Priority : SubmitTask(tt, d, p)
    \/ \E a \in A : LoopDequeue(a)
    \/ \E a \in A : LoopIdle(a)
    \/ \E a \in A : LoopExit(a)
    \/ \E a \in A, r \in CollabResults : ExecuteSuccess(a, r)
    \/ \E a \in A : ExecuteTimeout(a)
    \/ \E a \in A : ExecuteException(a)
    \/ \E a \in A : ShutdownBegin(a)
    \/ \E a \in A : ShutdownWait(a)

----------------------------------------------------------------------------
(***************************************************************************)
(* Spec: one Agent (transcription) under submit_task calls of its task     *)
(* type and of an unrouted one.                                            *)
(***************************************************************************)
Init == AgentInit({"transcription"}) /\ RTInit

Next == AgentNext({"transcribe", "summarize"}, {"transcription"})

Spec == Init /\ [][Next]_vars

(***************************************************************************)
(* SpecQueue: the pending queue of one Agent (transcription) under up to   *)
(* MaxQueueTasks valid submissions, with collaborators that return or      *)
(* raise; no shutdown.                                                     *)
(***************************************************************************)
InitQueue == AgentInit({"transcription"}) /\ RTInit

NextQueue ==
    \/ \E p \in Priority : SubmitTranscribe(p)
    \/ LoopDequeue("transcription")
    \/ LoopIdle("transcription")
    \/ \E r \in CollabResults : ExecuteSuccess("transcription", r)
    \/ ExecuteException("transcription")

SpecQueue == InitQueue /\ [][NextQueue]_vars

(***************************************************************************)
(* SpecQuality: the quality gate.  Valid tasks of every routed type with   *)
(* the default priority, and collaborators that return any of              *)
(* QualityResults.                                                         *)
(***************************************************************************)
InitQuality == AgentInit({}) /\ RTInit

NextQuality ==
    \/ \E tt \in DOMAIN task_routing :
          SubmitTask(tt, RequiredFields[task_routing[tt]], MEDIUM)
    \/ \E a \in Agents : LoopDequeue(a)
    \/ \E a \in Agents, r \in QualityResults : ExecuteSuccess(a, r)

SpecQuality == InitQuality /\ [][NextQuality]_vars

(***************************************************************************)
(* SpecManager: the AgentManager with its three agents as                  *)
(* initialize_agents configures them, under submit_task calls of every     *)
(* task type with the default priority, and shutdown_all_agents (the only  *)
(* caller of shutdown() in the application, main.py line 112).             *)
(***************************************************************************)
InitManager == AgentInit({}) /\ RTInit

NextManager ==
    \/ \E tt \in TaskTypes, d \in Payloads : SubmitTask(tt, d, MEDIUM)
    \/ \E a \in Agents : LoopDequeue(a)
    \/ \E a \in Agents : LoopIdle(a)
    \/ \E a \in Agents : LoopExit(a)
    \/ \E a \in Agents, r \in CollabResults : ExecuteSuccess(a, r)
    \/ \E a \in Agents : ExecuteTimeout(a)
    \/ \E a \in Agents : ExecuteException(a)
    \/ ShutdownAllBegin
    \/ \E a \in Agents : ShutdownTask(a)
    \/ \E a \in Agents : ShutdownWait(a)
    \/ ShutdownAllFinish

SpecManager == InitManager /\ [][NextManager]_vars

(***************************************************************************)
(* SpecRT: the real-time processor while it runs (stop() is in SpecStop).  *)
(* Sessions without subscribers receive chunks, each session chunks of one *)
(* of ChunkSizes, a transcription raises or returns any of Transcripts,    *)
(* and sessions are ended.                                                 *)
(***************************************************************************)
InitRT == AgentInit({}) /\ RTInit

NextRT == RTNext

SpecRT == InitRT /\ [][NextRT]_vars

(***************************************************************************)
(* SpecSettle: the end-to-end scenario.  Sessions receive at most the      *)
(* threshold number of chunks, each of ScenarioSizes; transcribe_whisper   *)
(* always returns "hello world"; there is no end_session and no stop.  The *)
(* workers and the result handler wait on their queues with a timeout in a *)
(* loop, so each of them takes an entry that stays on its queue: weak      *)
(* fairness.                                                               *)
(***************************************************************************)
\* len(audio_data) of the chunks of the scenario: each is enough audio to be
\* transcribed on its own.
ScenarioSizes == {MinAudioBytes, 4000}

AddScenarioChunk(session_id, size) ==
    /\ session_id \in DOMAIN sessions
    /\ sessions[session_id].last_activity < min_chunks_for_processing
    /\ AddChunk(session_id, size)

TranscribeHelloWorld(w) ==
    \E long_speech \in BOOLEAN : Worker(w, FALSE, <<"hello", "world">>, long_speech)

NextSettle ==
    \/ CreateSession
    \/ \E s \in 1..MaxSessions, size \in ScenarioSizes : AddScenarioChunk(s, size)
    \/ \E w \in Workers : WorkerGet(w)
    \/ \E w \in Workers : TranscribeHelloWorld(w)
    \/ HandlerGet
    \/ HandleResult

FairSettle ==
    /\ WF_vars(\E w \in Workers : WorkerGet(w))
    /\ WF_vars(\E w \in Workers : TranscribeHelloWorld(w))
    /\ WF_vars(HandlerGet)
    /\ WF_vars(HandleResult)

SpecSettle == InitRT /\ [][NextSettle]_vars /\ FairSettle

(***************************************************************************)
(* SpecWS: sessions with subscribers.  Websocket endpoints attach to and   *)
(* detach from the sessions, chunks of 4000 bytes arrive, every            *)
(* transcription gives "hello world", and sessions are ended, the close()  *)
(* of their websocket returning or raising at once or after a suspension;  *)
(* the processor is not stopped.                                           *)
(***************************************************************************)
\* add_audio_chunk while fewer than MaxWSChunks chunks have been accepted.
AddWSChunk(session_id, size) ==
    /\ chunks_accepted < MaxWSChunks
    /\ AddChunk(session_id, size)

NextWS ==
    \/ CreateSession
    \/ \E s \in 1..MaxSessions : AddWSChunk(s, 4000)
    \/ \E w \in Workers : WorkerGet(w)
    \/ \E w \in Workers : Worker(w, FALSE, <<"hello", "world">>, FALSE)
    \/ HandlerGet
    \/ \E s \in 1..MaxSessions : Attach(s)
    \/ \E s \in 1..MaxSessions : Detach(s)
    \/ HandleResult
    \/ \E closed \in ClosedTests : HandleResultSend(closed)
    \/ \E sent \in BOOLEAN : SendEnds(sent)
    \/ Backoff
    \/ \E s \in 1..MaxSessions, close \in CloseOutcomes :
          EndSessionBegin(s, close)
    \/ \E s \in 1..MaxSessions, close \in CloseOutcomes :
          EndSessionFinish(s, close)
    \/ \E s \in 1..MaxSessions, closed \in BOOLEAN :
          EndSessionCloseEnds(s, closed)

SpecWS == InitRT /\ [][NextWS]_vars

(***************************************************************************)
(* SpecStop: stop() step by step.  Sessions with and without a subscriber  *)
(* receive chunks of 4000 bytes, every transcription gives "hello world",  *)
(* and stop() may be called at any moment.  The event loop resumes every   *)
(* task that is ready: a cancelled one, a worker or the handler with a job *)
(* or result in hand, the handler when its sleep is over, and stop()       *)
(* itself once the tasks have ended: weak fairness of those steps.  A      *)
(* websocket.send is awaited without a timeout (line 359): nothing makes   *)
(* it return or raise, and there is no fairness for the step that ends it. *)
(***************************************************************************)
NextStop ==
    \/ CreateSession
    \/ \E s \in 1..MaxSessions : AddChunk(s, 4000)
    \/ \E w \in Workers : WorkerGet(w)
    \/ \E w \in Workers : Worker(w, FALSE, <<"hello", "world">>, FALSE)
    \/ HandlerGet
    \/ \E s \in 1..MaxSessions : Attach(s)
    \/ HandleResult
    \/ \E closed \in ClosedTests : HandleResultSend(closed)
    \/ \E sent \in BOOLEAN : SendEnds(sent)
    \/ Backoff
    \/ StopRequest
    \/ \E w \in Workers : WorkerExit(w)
    \/ HandlerExit
    \/ StopFinish
    \/ \E closed \in BOOLEAN : StopCloseEnds(closed)

FairStop ==
    /\ \A w \in Workers : /\ WF_vars(WorkerExit(w))
                           /\ WF_vars(Worker(w, FALSE, <<"hello", "world">>, FALSE))
    /\ WF_vars(HandlerExit)
    /\ WF_vars(HandleResult)
    /\ WF_vars(\E closed \in ClosedTests : HandleResultSend(closed))
    /\ WF_vars(Backoff)
    /\ WF_vars(StopFinish)

SpecStop == InitRT /\ [][NextStop]_vars /\ FairStop

(***************************************************************************)
(* SpecLive: one Agent (transcription) that is never shut down, under      *)
(* finitely many submit_task calls.  The loop polls its queue every 0.1 s  *)
(* and a collaborator call is awaited under wait_for with a timeout, so a  *)
(* dequeue that stays possible is taken and a call that was started ends:  *)
(* weak fairness of both.                                                  *)
(***************************************************************************)
LiveAgents == {"transcription"}

InitLive == AgentInit(LiveAgents) /\ RTInit

\* The await of process_task ends: it returns, times out or raises.
CollaboratorEnds(a) ==
    \/ \E r \in CollabResults : ExecuteSuccess(a, r)
    \/ ExecuteTimeout(a)
    \/ ExecuteException(a)

NextLive ==
    \/ \E d \in Payloads, p \in Priority : SubmitTask("transcribe", d, p)
    \/ \E a \in LiveAgents : LoopDequeue(a)
    \/ \E a \in LiveAgents : LoopIdle(a)
    \/ \E a \in LiveAgents, r \in CollabResults : ExecuteSuccess(a, r)
    \/ \E a \in LiveAgents : ExecuteTimeout(a)
    \/ \E a \in LiveAgents : ExecuteException(a)

FairLive ==
    \A a \in LiveAgents : WF_vars(LoopDequeue(a)) /\ WF_vars(CollaboratorEnds(a))

SpecLive == InitLive /\ [][NextLive]_vars /\ FairLive

(***************************************************************************)
(* SpecRing: one long-lived session whose buffers are about to overflow.   *)
(* Its initial states are the states the processor is in after session 1   *)
(* has been sent n chunks of 4000 bytes, none of them evicted yet, every   *)
(* job they triggered has been taken by a worker, the first k of them      *)
(* transcribed as "hello world" and the later ones failing in              *)
(* transcribe_whisper, and every result has been handled.  From there on   *)
(* chunks of 4000 bytes arrive, a transcription gives "hello world" or     *)
(* raises, and the session is ended by one end_session call.               *)
(***************************************************************************)
RingChunk(i) == [timestamp |-> i, size |-> 4000]

\* The j-th job of that session: pushed by chunk j + 3, with a copy of the
\* buffer as it was then.
RingJob(j) ==
    [session_id |-> 1,
     audio_chunks |-> [i \in 1..(j + min_chunks_for_processing - 1) |-> RingChunk(i)],
     job |-> j,
     flush |-> FALSE]

RingFragment(j) == process_audio_chunks(RingJob(j), FALSE, <<"hello", "world">>, FALSE)

\* session.quality_metrics after _update_session_metrics has been called with
\* results[i], results[i + 1], ... in turn on the dict m.  (The test of next
\* makes TLC compute each dict before the next call instead of nesting them.)
RECURSIVE FoldMetricsFrom(_, _, _)
FoldMetricsFrom(m, results, i) ==
    IF i > Len(results) THEN m
    ELSE LET next == update_session_metrics(m, results[i])
         IN  IF next = next THEN FoldMetricsFrom(next, results, i + 1) ELSE m

\* The same, starting from the dict of a new session.
FoldMetrics(results) == FoldMetricsFrom(EmptyMetrics, results, 1)

RingSession(n, k) ==
    LET fragments == [j \in 1..k |-> RingFragment(j)]
    IN  [is_active |-> TRUE,
         websocket |-> FALSE,
         audio_buffer |-> [i \in 1..n |-> RingChunk(i)],
         transcript_buffer |-> fragments,
         last_activity |-> n,
         quality_metrics |-> FoldMetrics(fragments)]

InitRing ==
    /\ AgentInit({})
    /\ \E n \in {audio_buffer_maxlen - 1, audio_buffer_maxlen},
          k \in {transcript_buffer_maxlen - 1, transcript_buffer_maxlen} :
          /\ sessions = [s \in {1} |-> RingSession(n, k)]
          /\ chunks_accepted = n
          /\ pushed = [j \in 1..(n - min_chunks_for_processing + 1) |-> RingJob(j)]
          /\ handler_log = [j \in 1..k |-> Outcome(RingFragment(j), "stored")]
    /\ sessions_created = 1
    /\ processing_queue = <<>>
    /\ result_queue = <<>>
    /\ running = TRUE
    /\ worker_pc = [w \in Workers |-> "run"]
    /\ worker_job = [w \in Workers |-> NoJob]
    /\ handler_pc = "run"
    /\ handler_result = NoneResult
    /\ handler_cancel = FALSE
    /\ end_waiting = [s \in 1..MaxSessions |-> 0]
    /\ end_closing = [s \in 1..MaxSessions |-> 0]
    /\ held_websocket = [s \in 1..MaxSessions |-> FALSE]
    /\ end_calls = 0
    /\ end_returned = [s \in 1..MaxSessions |-> <<>>]
    /\ stop_pc = "none"
    /\ stop_iter = NoIter

AddRingChunk(session_id, size) ==
    /\ chunks_accepted < audio_buffer_maxlen + MaxRingChunks
    /\ add_audio_chunk(session_id, size)

\* end_session on the session, by one caller: no call overlaps another.
EndRingSession(close) ==
    /\ end_waiting[1] = 0
    /\ EndSessionBegin(1, close)

TranscribeRing(w) ==
    \E raises \in BOOLEAN : Worker(w, raises, <<"hello", "world">>, FALSE)

NextRing ==
    \/ AddRingChunk(1, 4000)
    \/ \E w \in Workers : WorkerGet(w)
    \/ \E w \in Workers : TranscribeRing(w)
    \/ HandlerGet
    \/ HandleResult
    \/ \E close \in CloseOutcomes : EndRingSession(close)
    \/ \E close \in CloseOutcomes : EndSessionFinish(1, close)

SpecRing == InitRing /\ [][NextRing]_vars

----------------------------------------------------------------------------
(***************************************************************************)
(* Properties                                                              *)
(***************************************************************************)

\* The step in which agent a's loop takes the head of its pending queue.
Dequeues(a) == loop_pc[a] = "sleep" /\ loop_pc'[a] = "execute"

\* The pending tasks of a behind the head.
Behind(a) == {task_queue[a][i] : i \in 2..Len(task_queue[a])}

\* C1: whenever the loop of an Agent dequeues a task, no task still pending in
\* that Agent has a higher priority (of two pending tasks with priorities
\* P1 > P2, the P1 task is dequeued first).
C1_HigherPriorityFirst ==
    [][\A a \in Agents :
         Dequeues(a) =>
            \A u \in Behind(a) :
                tasks[u].priority <= tasks[Head(task_queue[a])].priority]_vars

\* C2: the number of tasks of an Agent that are in its active set, and so the
\* number in Processing state, never exceeds its max_concurrent_tasks.
C2_ConcurrencyCap ==
    \A a \in Agents :
        /\ Cardinality(active_tasks[a]) <= max_concurrent[a]
        /\ Cardinality({t \in TaskIds : /\ tasks[t].agent_type = a
                                        /\ tasks[t].status = "processing"})
              <= max_concurrent[a]

\* C2 witness: an Agent at its cap, a task executing and another one pending.
C2_Witness ==
    \E a \in Agents :
        /\ max_concurrent[a] >= 1
        /\ Cardinality(active_tasks[a]) = max_concurrent[a]
        /\ \E t \in active_tasks[a] : tasks[t].status = "processing"
        /\ task_queue[a] # <<>>

\* C3: a task in Processing does not keep the loop from starting another one:
\* whenever a running Agent has a task executing, a pending task and room under
\* its cap, its loop can dequeue (so two tasks can be in Processing together).
C3_LoopOverlapsExecutions ==
    \A a \in Agents :
        ( /\ loop_pc[a] # "stopped"
          /\ ~shutdown_flag[a]
          /\ \E t \in active_tasks[a] : tasks[t].status = "processing"
          /\ task_queue[a] # <<>>
          /\ Cardinality(active_tasks[a]) < max_concurrent[a] )
        => ENABLED LoopDequeue(a)

\* C4: a task whose collaborator raised on every attempt is queued again after
\* each of its first max_retries attempts and is in terminal Error after
\* exactly max_retries + 1 attempts, with priority
\* max(Low, initial priority - max_retries).
C4_RetriesExhausted ==
    \A t \in TaskIds :
        /\ (tasks[t].status = "error" /\ tasks[t].error = CollaboratorError)
              => /\ attempts[t] = max_retries + 1
                 /\ tasks[t].retry_count = max_retries
                 /\ tasks[t].priority = Max(LOW, submitted[t] - max_retries)
        /\ (attempts[t] >= 1 /\ attempts[t] = tasks[t].retry_count)
              => /\ tasks[t].status = "idle"
                 /\ attempts[t] <= max_retries
                 /\ tasks[t].priority = Max(LOW, submitted[t] - attempts[t])

\* C4 witness: a task submitted High has exhausted its retries (the floor at
\* Low was reached before the last retry).
C4_Witness ==
    \E t \in TaskIds :
        /\ tasks[t].status = "error"
        /\ tasks[t].error = CollaboratorError
        /\ submitted[t] = HIGH

\* C5: a timeout is retried like any other failure: a task is in terminal
\* Error for a timeout only once its retries are exhausted.
C5_TimeoutIsRetried ==
    \A t \in TaskIds :
        (tasks[t].status = "error" /\ tasks[t].error = TimeoutError)
            => tasks[t].retry_count = max_retries

\* C6: a task that has reached Completed or terminal Error after execution is
\* in the active set (not reaped yet) or in the completed-history list, and the
\* history holds every such task that has left the active set.
C6_TerminalTasksInHistory ==
    \A t \in TaskIds :
        (attempts[t] >= 1 /\ tasks[t].status \in {"completed", "error"})
            => \/ t \in active_tasks[tasks[t].agent_type]
               \/ InSeq(completed_tasks[tasks[t].agent_type], t)

\* C7: a task whose payload failed validate is never executed, is in no pending
\* queue and no active set, and is in Error with retry_count 0.
C7_InvalidNeverProcessed ==
    \A t \in TaskIds :
        ~valid[t] =>
            /\ attempts[t] = 0
            /\ tasks[t].status = "error"
            /\ tasks[t].error = InvalidInputError
            /\ tasks[t].retry_count = 0
            /\ \A a \in Agents : /\ ~InSeq(task_queue[a], t)
                                 /\ t \notin active_tasks[a]

\* C7 witness: a task submitted after an invalid one has been executed while
\* the invalid one never was.
C7_Witness ==
    \E t, u \in TaskIds :
        /\ ~valid[t]
        /\ t < u
        /\ attempts[u] >= 1
        /\ attempts[t] = 0

\* C8: the id returned for a submit that failed validation resolves: the
\* Agent's status lookup finds the task.
C8_InvalidTaskResolvable ==
    \A t \in TaskIds :
        ~valid[t] => get_task_status(tasks[t].agent_type, t) = t

\* The jobs pushed for a session so far.
JobsOf(s) == SelectSeq(pushed, LAMBDA j : j.session_id = s)

\* C9: for a session that is still Active (no end_session, no stop), no job has
\* been pushed while it has received fewer chunks than the trigger threshold,
\* and after exactly that many chunks exactly one job has been pushed, holding
\* those chunks in arrival order.
C9_ThresholdPushesOneJob ==
    \A s \in DOMAIN sessions :
        sessions[s].is_active =>
            /\ sessions[s].last_activity < min_chunks_for_processing
                  => JobsOf(s) = <<>>
            /\ sessions[s].last_activity = min_chunks_for_processing
                  => /\ Len(JobsOf(s)) = 1
                     /\ JobsOf(s)[1].audio_chunks = sessions[s].audio_buffer
                     /\ Len(sessions[s].audio_buffer) = min_chunks_for_processing
                     /\ \A i \in 1..min_chunks_for_processing :
                           sessions[s].audio_buffer[i].timestamp = i

\* C9 witness: an Active session has received exactly the threshold number of
\* chunks and its job has been pushed.
C9_Witness ==
    \E s \in DOMAIN sessions :
        /\ sessions[s].is_active
        /\ sessions[s].last_activity = min_chunks_for_processing
        /\ Len(JobsOf(s)) = 1

\* Job n is in the hands of a worker, or its result in those of the handler.
InHand(n) ==
    \/ \E w \in Workers : worker_job[w].job = n
    \/ handler_result # NoneResult /\ handler_result.job = n

\* A pushed job is unresolved while it is on the work queue or with a worker,
\* or its result is on the result queue or with the handler.
Unresolved(n) ==
    \/ \E i \in 1..Len(processing_queue) : processing_queue[i].job = n
    \/ \E i \in 1..Len(result_queue) : result_queue[i].job = n
    \/ InHand(n)

\* C10: once a session has received one chunk more than the threshold while its
\* first job is unresolved, still only that job has been pushed, and no job
\* holds the new chunk together with a chunk of the first batch.
C10_FifthChunkStartsNewBatch ==
    \A s \in DOMAIN sessions :
        ( /\ sessions[s].is_active
          /\ sessions[s].last_activity = min_chunks_for_processing + 1
          /\ JobsOf(s) # <<>>
          /\ Unresolved(JobsOf(s)[1].job) )
        => /\ Len(JobsOf(s)) = 1
           /\ \A i \in 1..Len(JobsOf(s)) :
                 ~\E c, d \in 1..Len(JobsOf(s)[i].audio_chunks) :
                     /\ JobsOf(s)[i].audio_chunks[c].timestamp
                           <= min_chunks_for_processing
                     /\ JobsOf(s)[i].audio_chunks[d].timestamp
                           = min_chunks_for_processing + 1

\* The index of task t in the pending queue q (0 when it is not there).
IndexOf(q, t) == IF InSeq(q, t) THEN CHOOSE i \in 1..Len(q) : q[i] = t ELSE 0

\* The step in which the execution of task t of agent a ends in a retry.
Retries(a, t) ==
    /\ loop_pc[a] = "execute"
    /\ loop_task[a] = t
    /\ tasks'[t].retry_count = tasks[t].retry_count + 1

\* C17: a retry leaves the task Idle with its error cleared and puts it in the
\* pending queue at the tail of its new priority band: every task before it
\* has a priority greater than or equal to its new priority, every task behind
\* it a strictly lower one.
C17_RetryAtTailOfBand ==
    [][\A a \in Agents : \A t \in TaskIds :
         Retries(a, t) =>
            LET q == task_queue'[a]
                k == IndexOf(q, t)
            IN  /\ tasks'[t].status = "idle"
                /\ tasks'[t].error = NoError
                /\ k > 0
                /\ \A i \in 1..(k - 1) :
                      tasks'[q[i]].priority >= tasks'[t].priority
                /\ \A i \in (k + 1)..Len(q) :
                      tasks'[q[i]].priority < tasks'[t].priority]_vars

\* C18: a submit places the new task behind every pending task of the same
\* priority, so that tasks of equal priority are dequeued in the order in
\* which they entered the queue.
C18_StableInsertion ==
    [][\A a \in Agents :
         LET n == Len(tasks) + 1
             q == task_queue'[a]
         IN  (Len(tasks') = n /\ InSeq(q, n)) =>
                \A i \in 1..Len(q) :
                    (q[i] # n /\ tasks'[q[i]].priority = tasks'[n].priority)
                        => i < IndexOf(q, n)]_vars

\* C19: a submit routed to an Agent whose shutdown has begun leaves that
\* Agent's pending queue unchanged.
C19_SubmitRejectedAfterShutdown ==
    [][\A a \in Agents :
         ( /\ shutdown_flag[a]
           /\ Len(tasks') = Len(tasks) + 1
           /\ tasks'[Len(tasks')].agent_type = a )
         => task_queue'[a] = task_queue[a]]_vars

\* C20: once shutdown() has set the flag of an Agent, its loop takes no task
\* from the pending queue and no Idle task of the Agent becomes Processing.
C20_NoDequeueAfterShutdown ==
    [][\A a \in Agents :
         shutdown_flag[a] =>
            /\ ~Dequeues(a)
            /\ Len(task_queue'[a]) >= Len(task_queue[a])
            /\ \A t \in TaskIds :
                  (tasks[t].agent_type = a /\ tasks[t].status = "idle")
                      => tasks'[t].status # "processing"]_vars

\* C20 witness: shutdown began while a task was executing (it waits for the
\* active set); the loop has finished that task and is suspended in its sleep
\* with a task pending and room under the cap.
C20_Witness ==
    \E a \in Agents :
        /\ shutdown_flag[a]
        /\ shutdown_pc[a] = "wait"
        /\ loop_pc[a] = "sleep"
        /\ task_queue[a] # <<>>
        /\ Cardinality(active_tasks[a]) < max_concurrent[a]

\* The numbers of the jobs pushed for session s.
JobNumbersOf(s) == {n \in 1..Len(pushed) : pushed[n].session_id = s}

\* The result of job n has been handled for session s: it is in the session's
\* transcript buffer.
Handled(s, n) ==
    \E i \in 1..Len(sessions[s].transcript_buffer) :
        sessions[s].transcript_buffer[i].job = n

\* The chunk with timestamp ts is in the sequence of chunks.
HasChunk(chunks, ts) == \E i \in 1..Len(chunks) : chunks[i].timestamp = ts

\* C11: once the result of a job has been handled for a session, none of the
\* chunks the job covers is in the session's audio buffer; the chunks of a job
\* whose result has not been handled are all still buffered.
C11_HandledChunksCleared ==
    \A s \in DOMAIN sessions : \A n \in JobNumbersOf(s) :
        \A c \in 1..Len(pushed[n].audio_chunks) :
            Handled(s, n) <=>
                ~HasChunk(sessions[s].audio_buffer,
                          pushed[n].audio_chunks[c].timestamp)

\* C12: a session never has two outstanding jobs (on the work queue or with a
\* worker, or with a result that has not been handled yet).
C12_OneOutstandingJob ==
    \A s \in 1..MaxSessions :
        Cardinality({n \in JobNumbersOf(s) : Unresolved(n)}) <= 1

\* The session id is unknown, the session is not Active, or end_session has
\* been called on it (a call is in its final wait or in the close() of the
\* websocket, or has ended).
MustReject(s) ==
    \/ s \notin DOMAIN sessions
    \/ ~sessions[s].is_active
    \/ end_waiting[s] > 0
    \/ end_closing[s] > 0
    \/ end_returned[s] # <<>>

\* C13: for an unknown, inactive or ending session add_audio_chunk returns
\* False, and no add_audio_chunk call on it changes a session (audio buffer,
\* transcript buffer, last_activity) or the work queue.
C13_AddChunkRejected ==
    \A s \in 1..(MaxSessions + 1) :
        MustReject(s) =>
            /\ ~add_audio_chunk_returns(s)
            /\ \A size \in ChunkSizes :
                  ~ENABLED ( /\ AddChunk(s, size)
                             /\ <<sessions, processing_queue>>'
                                   # <<sessions, processing_queue>> )

\* C13 witness: an end_session call is in its final wait on a session that
\* holds audio, and an add_audio_chunk call on it can be made.
C13_Witness ==
    \E s \in DOMAIN sessions :
        /\ end_waiting[s] > 0
        /\ sessions[s].audio_buffer # <<>>
        /\ processing_queue # <<>>
        /\ \E size \in ChunkSizes : ENABLED AddChunk(s, size)

\* C14: after an end_session call on an id has returned, end_session does not
\* find the id (it returns None) and a further call changes nothing.
C14_SecondEndSessionNotFound ==
    \A s \in 1..MaxSessions :
        (\E i \in 1..Len(end_returned[s]) : end_returned[s][i] = "summary")
        =>
            /\ ~end_session_finds(s)
            /\ ~ENABLED (/\ \E close \in CloseOutcomes :
                               EndSessionBegin(s, close)
                         /\ vars' # vars)

\* C14 witness: an end_session call on one session has returned while another
\* session is live with audio buffered and a job is on the work queue.
C14_Witness ==
    \E s \in 1..MaxSessions :
        /\ end_returned[s] = <<"summary">>
        /\ \E u \in DOMAIN sessions : sessions[u].audio_buffer # <<>>
        /\ processing_queue # <<>>
        /\ ENABLED (\E close \in CloseOutcomes : EndSessionBegin(s, close))

\* C15: of the end_session calls on one session none raises, at most one
\* returns the summary, and at most one flush job is pushed for the session.
C15_OverlappingEndSession ==
    \A s \in 1..MaxSessions :
        /\ \A i \in 1..Len(end_returned[s]) : end_returned[s][i] # "KeyError"
        /\ Cardinality({i \in 1..Len(end_returned[s]) :
                           end_returned[s][i] = "summary"}) <= 1
        /\ Cardinality({n \in JobNumbersOf(s) : pushed[n].flush}) <= 1

RECURSIVE SumWords(_)
SumWords(results) ==
    IF results = <<>> THEN 0
    ELSE Head(results).word_count + SumWords(Tail(results))

\* C16: a session for which k >= 1 results have been handled has chunk count k
\* and total_words equal to the sum of the word counts of those results.
C16_MetricsAccumulate ==
    \A s \in DOMAIN sessions :
        LET handled == sessions[s].transcript_buffer
        IN  handled # <<>> =>
               /\ sessions[s].quality_metrics["total_chunks"] = Len(handled)
               /\ sessions[s].quality_metrics["total_words"] = SumWords(handled)

\* C21: an Agent whose shutdown() has returned has an empty active set, and
\* every task of it that was executed is Completed, in Error, or Idle in the
\* pending queue again; shutdown_all_agents has returned only if the shutdown()
\* of every registered Agent has.
C21_ShutdownDrains ==
    /\ \A a \in Agents :
          shutdown_pc[a] = "done" =>
             /\ active_tasks[a] = {}
             /\ \A t \in TaskIds :
                   (tasks[t].agent_type = a /\ attempts[t] >= 1) =>
                      \/ tasks[t].status \in {"completed", "error"}
                      \/ tasks[t].status = "idle" /\ InSeq(task_queue[a], t)
    /\ shutdown_all_pc = "done" => \A a \in Agents : shutdown_pc[a] = "done"

\* C21 witness: shutdown_all_agents has returned; one Agent was executing a task
\* that has been re-enqueued by a retry, another Agent has completed a task.
C21_Witness ==
    /\ shutdown_all_pc = "done"
    /\ \E t, u \in TaskIds :
          /\ tasks[t].agent_type # tasks[u].agent_type
          /\ tasks[t].retry_count >= 1
          /\ InSeq(task_queue[tasks[t].agent_type], t)
          /\ tasks[u].status = "completed"

\* The quality score the gate is to use for the dict r a collaborator returned:
\* its confidence, else its accuracy, else the default 0.8, clamped to [0, 1].
GateScore(r) ==
    LET raw == IF "confidence" \in DOMAIN r THEN r["confidence"]
               ELSE IF "accuracy" \in DOMAIN r THEN r["accuracy"]
               ELSE 80
    IN  IF raw < 0 THEN 0 ELSE IF raw > 100 THEN 100 ELSE raw

\* C22: a task whose collaborator returned a result is Completed whatever the
\* quality score, the result keeps what the collaborator returned, and it
\* carries the low-quality warning exactly when the score is strictly below
\* the confidence_threshold of its Agent.
C22_QualityGateAnnotates ==
    \A t \in TaskIds :
        tasks[t].result.set =>
            /\ tasks[t].status = "completed"
            /\ tasks[t].error = NoError
            /\ tasks[t].result.quality_score = GateScore(tasks[t].result.returned)
            /\ tasks[t].result.quality_warning
                  <=> ( GateScore(tasks[t].result.returned)
                           < confidence_threshold[tasks[t].agent_type] )

\* C22 witness: with threshold 0.7 (the analysis Agent) a task whose result has
\* confidence 0.5 is Completed with the warning, and one whose result has
\* confidence 0.9 is Completed without it.
C22_Witness ==
    \E t, u \in TaskIds :
        /\ tasks[t].agent_type = "analysis"
        /\ tasks[u].agent_type = "analysis"
        /\ confidence_threshold["analysis"] = 70
        /\ tasks[t].result.set
        /\ tasks[t].result.returned = [k \in {"confidence"} |-> 50]
        /\ tasks[t].result.quality_warning
        /\ tasks[u].result.set
        /\ tasks[u].result.returned = [k \in {"confidence"} |-> 90]
        /\ ~tasks[u].result.quality_warning
        /\ tasks[u].status = "completed"

\* C23: no task ever has a retry_count above max_retries.
C23_RetryCountBounded ==
    \A t \in TaskIds : tasks[t].retry_count <= max_retries

\* C23 witness: a task has used all its retries and its collaborator has
\* raised once more.
C23_Witness ==
    \E t \in TaskIds :
        /\ tasks[t].retry_count = max_retries
        /\ attempts[t] = max_retries + 1
        /\ loop_task["transcription"] # t

\* C24: a step from a state in which a task is Completed or in Error leaves
\* every field of the task unchanged, does not execute it, and leaves it out of
\* every pending queue and active set.
C24_TerminalAbsorbing ==
    [][\A t \in TaskIds :
         tasks[t].status \in {"completed", "error"} =>
            /\ tasks'[t] = tasks[t]
            /\ attempts'[t] = attempts[t]
            /\ \A a \in Agents : /\ ~InSeq(task_queue'[a], t)
                                 /\ t \notin active_tasks'[a]]_vars

\* C24 witness: the loop has dequeued and finished a task after another task
\* had become terminal: one task is Completed, another in Error after its
\* execution, and both have left the active set.
C24_Witness ==
    \E t, u \in TaskIds :
        /\ tasks[t].status = "completed"
        /\ tasks[u].status = "error"
        /\ attempts[u] >= 1
        /\ \A a \in Agents : active_tasks[a] = {}

\* C25: submit_task with a task type that is not routed raises, and no such
\* call changes anything (tasks, queues, active sets, histories, the counter).
C25_UnknownTypeNoEffect ==
    \A tt \in TaskTypes \ DOMAIN task_routing :
        /\ submit_task_raises(tt)
        /\ \A d \in Payloads, p \in Priority :
              ~ENABLED (SubmitTask(tt, d, p) /\ vars' # vars)

\* C25 witness: a submit_task call with an unrouted type can be made while the
\* manager has counted a submit and an Agent holds a pending task.
C25_Witness ==
    /\ \E tt \in TaskTypes \ DOMAIN task_routing :
          ENABLED SubmitTask(tt, {"audio_path"}, MEDIUM)
    /\ tasks_submitted >= 1
    /\ \E a \in Agents : task_queue[a] # <<>>

\* Processing has settled for session s with one fragment of two words: no job
\* and no result of the session is on a queue, with a worker or with the
\* handler, and its transcript (what get_session_transcript returns) is one
\* fragment with word_count 2.
SettledWithOneFragment(s) ==
    /\ s \in DOMAIN sessions
    /\ \A i \in 1..Len(processing_queue) : processing_queue[i].session_id # s
    /\ \A i \in 1..Len(result_queue) : result_queue[i].session_id # s
    /\ \A w \in Workers : worker_job[w] = NoJob \/ worker_job[w].session_id # s
    /\ handler_result.session_id # s
    /\ Len(sessions[s].transcript_buffer) = 1
    /\ sessions[s].transcript_buffer[1].word_count = 2

\* C26: once a session has received its fourth chunk, processing eventually
\* settles, and stays settled, with exactly one fragment of word_count 2 in
\* the session's transcript.
C26_SettlesWithOneFragment ==
    \A s \in 1..MaxSessions :
        (s \in DOMAIN sessions /\ sessions[s].last_activity = min_chunks_for_processing)
            ~> []SettledWithOneFragment(s)

\* C26 witness: a session that received four chunks has settled with its one
\* fragment.
C26_Witness ==
    \E s \in DOMAIN sessions :
        /\ sessions[s].last_activity = min_chunks_for_processing
        /\ Len(sessions[s].audio_buffer) = min_chunks_for_processing
        /\ SettledWithOneFragment(s)

\* An append to the full buffer buf, giving buf2, evicted exactly the oldest
\* entry and kept the order of the others.
EvictsOldest(buf, buf2) ==
    /\ Len(buf2) = Len(buf)
    /\ \A i \in 1..(Len(buf) - 1) : buf2[i] = buf[i + 1]
    /\ \A i \in 1..Len(buf) : buf2[Len(buf2)] # buf[i]

\* C27: the audio buffer of a session never holds more than audio_buffer_maxlen
\* chunks and its transcript buffer never more than transcript_buffer_maxlen
\* fragments, and a step that appends to a full buffer evicts exactly its
\* oldest entry and keeps the order of the others.
C27_RingBuffers ==
    /\ [](\A s \in DOMAIN sessions :
            /\ Len(sessions[s].audio_buffer) <= audio_buffer_maxlen
            /\ Len(sessions[s].transcript_buffer) <= transcript_buffer_maxlen)
    /\ [][\A s \in DOMAIN sessions \cap DOMAIN sessions' :
            /\ (/\ Len(sessions[s].audio_buffer) = audio_buffer_maxlen
                /\ sessions'[s].last_activity # sessions[s].last_activity)
                   => EvictsOldest(sessions[s].audio_buffer, sessions'[s].audio_buffer)
            /\ (/\ Len(sessions[s].transcript_buffer) = transcript_buffer_maxlen
                /\ sessions'[s].transcript_buffer # sessions[s].transcript_buffer)
                   => EvictsOldest(sessions[s].transcript_buffer,
                                   sessions'[s].transcript_buffer)]_vars

\* C27 witness: both buffers of a session are full after evictions: the oldest
\* chunk and the oldest fragment of the session are gone.
C27_Witness ==
    \E s \in DOMAIN sessions :
        /\ Len(sessions[s].audio_buffer) = audio_buffer_maxlen
        /\ sessions[s].audio_buffer[1].timestamp > 1
        /\ Len(sessions[s].transcript_buffer) = transcript_buffer_maxlen
        /\ sessions[s].transcript_buffer[1].job > 1

\* C28: the pending queue of every Agent is sorted by non-increasing current
\* priority in every reachable state, tasks re-enqueued by a retry included, so
\* that the head the loop takes has the highest priority of the pending tasks.
C28_QueueSortedByPriority ==
    \A a \in Agents :
        \A i \in 1..Len(task_queue[a]), j \in 1..Len(task_queue[a]) :
            i < j => tasks[task_queue[a][i]].priority >= tasks[task_queue[a][j]].priority

\* C29: in an Agent that is never shut down and can run a task at all
\* (max_concurrent_tasks >= 1), every valid task that was submitted eventually
\* is Completed or in Error for good, whatever the collaborator does on the
\* other tasks.
C29_ValidTaskSettles ==
    \A t \in 1..MaxTasks :
        (/\ t \in TaskIds
         /\ valid[t]
         /\ max_concurrent[tasks[t].agent_type] >= 1)
            ~> [](t \in TaskIds /\ tasks[t].status \in {"completed", "error"})

\* C29 witness: a task has ended in Error after its collaborator raised, and
\* another task of the same Agent, submitted after it, is Completed.
C29_Witness ==
    \E t \in TaskIds, u \in TaskIds :
        /\ t < u
        /\ valid[t] /\ valid[u]
        /\ tasks[t].agent_type = tasks[u].agent_type
        /\ tasks[t].status = "error"
        /\ tasks[t].error = CollaboratorError
        /\ tasks[u].status = "completed"

\* C30: the fragments in a session's transcript buffer are in the order in
\* which their jobs were pushed onto processing_queue, whichever workers took
\* the jobs.
C30_FragmentsInPushOrder ==
    \A s \in DOMAIN sessions :
        \A i \in 1..Len(sessions[s].transcript_buffer),
           j \in 1..Len(sessions[s].transcript_buffer) :
            i < j => sessions[s].transcript_buffer[i].job
                        < sessions[s].transcript_buffer[j].job

\* The job numbers held by the entries of a queue or buffer, with repetitions.
JobBag(q) == [i \in 1..Len(q) |-> q[i].job]

\* Every job and result in the system, as job numbers: the pending jobs, the
\* jobs the workers hold, the results waiting for the handler, the result it
\* holds and the fragments of the live sessions.
JobsInSystem ==
    LET ids == SetToSeq(DOMAIN sessions)
        RECURSIVE Fragments(_)
        Fragments(seq) == IF seq = <<>> THEN <<>>
                          ELSE JobBag(sessions[Head(seq)].transcript_buffer)
                                  \o Fragments(Tail(seq))
        held == SelectSeq([w \in Workers |-> worker_job[w]], LAMBDA j : j # NoJob)
        handling == IF handler_result # NoneResult THEN <<handler_result>> ELSE <<>>
    IN  JobBag(processing_queue) \o JobBag(held) \o JobBag(result_queue)
           \o JobBag(handling) \o Fragments(ids)

\* C31: a job is in one place at most (on the work queue or with a worker)
\* and has at most one result anywhere; the step that takes a job takes the
\* head of the queue for one worker and changes nothing else; the step in
\* which a worker is done with a job puts nothing back on the work queue,
\* changes no session, and adds at most one result, which is the result of
\* that job; no result exists for too little audio or for an empty or trivial
\* text.
C31_FailedJobDropped ==
    /\ [](\A i \in 1..Len(JobsInSystem), j \in 1..Len(JobsInSystem) :
            i # j => JobsInSystem[i] # JobsInSystem[j])
    /\ [](\A i \in 1..Len(result_queue) :
            /\ result_queue[i].audio_bytes >= MinAudioBytes
            /\ StrippedLen(result_queue[i].transcript) >= MinTranscriptLen)
    /\ [][/\ Len(processing_queue') < Len(processing_queue) =>
               /\ processing_queue' = Tail(processing_queue)
               /\ \E w \in Workers :
                     /\ worker_job[w] = NoJob
                     /\ worker_job' = [worker_job EXCEPT ![w] = Head(processing_queue)]
               /\ <<pushed, sessions, result_queue, worker_pc, running>>'
                     = <<pushed, sessions, result_queue, worker_pc, running>>
       /\ \A w \in Workers :
             (worker_job[w] # NoJob /\ worker_job'[w] # worker_job[w]) =>
                /\ worker_job' = [worker_job EXCEPT ![w] = NoJob]
                /\ <<processing_queue, pushed, sessions, running>>'
                      = <<processing_queue, pushed, sessions, running>>
                /\ running => worker_pc' = worker_pc
                /\ \/ result_queue' = result_queue
                   \/ /\ Len(result_queue') = Len(result_queue) + 1
                      /\ SubSeq(result_queue', 1, Len(result_queue)) = result_queue
                      /\ result_queue'[Len(result_queue')].job = worker_job[w].job
                /\ SumSizes(worker_job[w].audio_chunks) < MinAudioBytes
                      => result_queue' = result_queue]_vars

\* C31 witness: a job of a live session was dropped without a result and a
\* later job of the session has been served and its fragment stored.
C31_Witness ==
    \E s \in DOMAIN sessions :
        \E n \in JobNumbersOf(s), m \in JobNumbersOf(s) :
            /\ n < m
            /\ ~Handled(s, n) /\ Handled(s, m)
            /\ processing_queue = <<>> /\ result_queue = <<>>

\* In the registry ss, session s exists and holds the fragment of job n, and
\* its metrics count at least that fragment.
HoldsFragment(ss, s, n) ==
    /\ s \in DOMAIN ss
    /\ \E i \in 1..Len(ss[s].transcript_buffer) :
          LET fragment == ss[s].transcript_buffer[i]
          IN  /\ fragment.job = n
              /\ ss[s].quality_metrics["total_chunks"] >= 1
              /\ ss[s].quality_metrics["total_words"] >= fragment.word_count

\* C32: a step in which the delivery of a fragment fails (websocket.send
\* raises, or the test of the websocket raises) leaves the handler running; a
\* failing send changes no session, and a session that is in the registry
\* when the delivery fails still holds the fragment, counts it in its metrics
\* and has the active flag it had.
C32_DeliveryFailureKeepsState ==
    [][/\ (/\ handler_pc = "send"
            /\ handler_log'[Len(handler_log')].outcome = "send_raised")
           => LET e == handler_log[Len(handler_log)]
              IN  /\ sessions' = sessions
                  /\ handler_pc' = "run"
                  /\ e.session_id \in DOMAIN sessions
                        => HoldsFragment(sessions', e.session_id, e.job)
       /\ (/\ Len(handler_log') > Len(handler_log)
            /\ handler_log'[Len(handler_log')].outcome = "closed_raised")
           => LET e == handler_result
              IN  /\ DOMAIN sessions' = DOMAIN sessions
                  /\ HoldsFragment(sessions', e.session_id, e.job)
                  /\ sessions'[e.session_id].is_active
                        = sessions[e.session_id].is_active
                  /\ handler_pc' = "backoff"
       /\ handler_pc = "backoff" /\ handler_pc' # handler_pc
           => handler_pc' = "run"]_vars

\* C32 witness: the delivery of a fragment failed, its session holds the
\* fragment, and the handler has taken a later result.
C32_Witness ==
    \E i \in 1..Len(handler_log), j \in 1..Len(handler_log) :
        /\ i < j
        /\ handler_log[i].outcome \in {"send_raised", "closed_raised"}
        /\ HoldsFragment(sessions, handler_log[i].session_id, handler_log[i].job)
        /\ handler_pc = "run"

\* C33: the step in which the handler is resumed with a result whose session
\* is not in the registry changes no session, starts no delivery, and leaves
\* the handler running.
C33_ResultOfEndedSessionDiscarded ==
    [][(/\ handler_result # NoneResult
        /\ handler_result' # handler_result
        /\ handler_result.session_id \notin DOMAIN sessions)
          => /\ sessions' = sessions
             /\ handler_pc' = "run"
             /\ handler_log' = Append(handler_log,
                                      Outcome(handler_result, "discarded"))]_vars

\* C33 witness: the result of a job of an ended session has been discarded
\* while another session had a subscriber.
C33_Witness ==
    /\ \E i \in 1..Len(handler_log) :
          /\ handler_log[i].outcome = "discarded"
          /\ handler_log[i].session_id \notin DOMAIN sessions
          /\ end_returned[handler_log[i].session_id] # <<>>
    /\ \E s \in DOMAIN sessions : sessions[s].websocket

\* C34: a step in which an end_session call starts to wait (it found chunks
\* buffered) has pushed exactly one job, holding the chunks buffered then, and
\* has not yet returned the summary; a step in which an end_session call
\* ends without waiting found the audio buffer empty and has pushed no job;
\* the step that ends the wait and the step that ends the close() of the
\* websocket push no job.
C34_EndSessionFlushesOnce ==
    [][\A s \in 1..MaxSessions :
         /\ end_waiting'[s] = end_waiting[s] + 1
               => /\ sessions[s].audio_buffer # <<>>
                  /\ Len(pushed') = Len(pushed) + 1
                  /\ processing_queue' = Append(processing_queue, pushed'[Len(pushed')])
                  /\ pushed'[Len(pushed')].session_id = s
                  /\ pushed'[Len(pushed')].audio_chunks = sessions[s].audio_buffer
                  /\ end_returned' = end_returned
         /\ (/\ end_waiting'[s] = end_waiting[s]
             /\ end_closing'[s] >= end_closing[s]
             /\ <<end_returned[s], end_closing[s]>>'
                   # <<end_returned[s], end_closing[s]>>)
               => /\ sessions[s].audio_buffer = <<>>
                  /\ pushed' = pushed
                  /\ processing_queue' = processing_queue
         /\ (\/ end_waiting'[s] < end_waiting[s]
             \/ end_closing'[s] < end_closing[s])
               => /\ pushed' = pushed
                  /\ processing_queue' = processing_queue]_vars

\* C34 witness: an end_session call has flushed the chunks of its session and
\* returned the summary, and another call has ended a session without chunks
\* and without a job.
C34_Witness ==
    /\ \E n \in 1..Len(pushed) :
          /\ pushed[n].flush
          /\ pushed[n].audio_chunks # <<>>
          /\ end_returned[pushed[n].session_id] # <<>>
    /\ \E s \in 1..MaxSessions :
          /\ end_returned[s] = <<"summary">>
          /\ JobNumbersOf(s) = {}

\* C35: every job on the work queue or with a worker is the job as it was
\* pushed: its chunk list is the copy of the audio buffer taken then, whatever
\* add_audio_chunk, the eviction of old chunks and end_session have done to
\* the session since.
C35_JobIsSnapshot ==
    /\ \A i \in 1..Len(processing_queue) :
          /\ processing_queue[i].job \in 1..Len(pushed)
          /\ processing_queue[i] = pushed[processing_queue[i].job]
    /\ \A w \in Workers :
          worker_job[w] # NoJob =>
             /\ worker_job[w].job \in 1..Len(pushed)
             /\ worker_job[w] = pushed[worker_job[w].job]

\* C35 witness: a job pushed when the audio buffer was full is still pending,
\* with the chunk that has since been evicted from the buffer, after a later
\* chunk and an end_session call on its session.
C35_Witness ==
    \E i \in 1..Len(processing_queue) :
        LET job == processing_queue[i]
            s == job.session_id
        IN  /\ s \in DOMAIN sessions
            /\ ~sessions[s].is_active
            /\ job.audio_chunks[1].timestamp < sessions[s].audio_buffer[1].timestamp
            /\ job.audio_chunks[Len(job.audio_chunks)].timestamp
                  < sessions[s].last_activity

\* C36: once stop() has been requested, every worker and the result handler
\* eventually has left its loop, for good, wherever it was suspended when the
\* request came.
C36_StopEndsWorkersAndHandler ==
    (~running) ~> [](/\ \A w \in Workers : worker_pc[w] = "stopped"
                     /\ handler_pc = "stopped")

\* C37: the global submitted-count counter equals the number of submit_task
\* calls made with a known task type, calls with a payload that fails
\* validation included; a call with an unknown type leaves the counter as it
\* is.
C37_SubmittedCountsRoutedCalls ==
    /\ tasks_submitted = Len(valid)
    /\ tasks_submitted = Cardinality({t \in TaskIds : valid[t]})
                            + Cardinality({t \in TaskIds : ~valid[t]})
    /\ \A tt \in TaskTypes \ DOMAIN task_routing, d \in Payloads :
          ~ENABLED (SubmitTask(tt, d, MEDIUM) /\ tasks_submitted' # tasks_submitted)

\* C37 witness: the counter has counted a call with a valid payload and a call
\* with an invalid one.
C37_Witness ==
    /\ tasks_submitted = 2
    /\ \E t \in TaskIds, u \in TaskIds : valid[t] /\ ~valid[u]

\* C38: for every Agent, no task is twice in the pending queue, and no task
\* is in two of the pending queue, the active set and the history list.
C38_TaskInOnePlace ==
    \A a \in Agents :
        /\ \A i \in 1..Len(task_queue[a]), j \in 1..Len(task_queue[a]) :
              i # j => task_queue[a][i] # task_queue[a][j]
        /\ \A i \in 1..Len(completed_tasks[a]), j \in 1..Len(completed_tasks[a]) :
              i # j => completed_tasks[a][i] # completed_tasks[a][j]
        /\ \A t \in TaskIds :
              Cardinality({place \in {"pending", "active", "history"} :
                  \/ place = "pending" /\ InSeq(task_queue[a], t)
                  \/ place = "active" /\ t \in active_tasks[a]
                  \/ place = "history" /\ InSeq(completed_tasks[a], t)}) <= 1

\* C38 witness: a task that was retried is pending again, and only pending,
\* while another task of the Agent is active.
C38_Witness ==
    \E a \in Agents, t \in TaskIds, u \in TaskIds :
        /\ tasks[t].retry_count > 0
        /\ InSeq(task_queue[a], t)
        /\ t \notin active_tasks[a]
        /\ u \in active_tasks[a]

\* C39: the priority of a task never increases: a step leaves it as it is or
\* lowers it by exactly one level, the latter only together with a retry; it
\* is never below Low nor above the priority the task was submitted with.
C39_PriorityNeverIncreases ==
    /\ [](\A t \in TaskIds : /\ tasks[t].priority >= LOW
                              /\ tasks[t].priority <= submitted[t])
    /\ [][\A t \in TaskIds :
            \/ tasks'[t].priority = tasks[t].priority
            \/ /\ tasks'[t].priority = tasks[t].priority - 1
               /\ tasks'[t].retry_count = tasks[t].retry_count + 1]_vars

\* C39 witness: a task submitted above Low has been retried and demoted by
\* one level for each retry down to Low, where a further retry has left it.
C39_Witness ==
    \E t \in TaskIds :
        /\ submitted[t] = MEDIUM
        /\ tasks[t].retry_count = 2
        /\ tasks[t].priority = LOW

\* The per-agent collections of BaseAgent.__init__ (lines 58-65).
AgentState(a) ==
    <<task_queue[a], active_tasks[a], completed_tasks[a], quality_metrics[a]>>

\* C40: agents are independent: a step changes the pending queue, active set,
\* history and quality metrics of at most one agent; a submit_task changes
\* those of the agent the task is routed to only, and a scheduling or
\* execution step of an agent (its loop position moves) those of that agent only.
C40_AgentsIndependent ==
    [][/\ Cardinality({a \in Agents : AgentState(a)' # AgentState(a)}) <= 1
       /\ Len(tasks') > Len(tasks) =>
              \A b \in Agents \ {tasks'[Len(tasks')].agent_type} :
                  AgentState(b)' = AgentState(b)
       /\ \A a \in Agents :
              (loop_pc'[a] # loop_pc[a] \/ loop_task'[a] # loop_task[a]) =>
                  \A b \in Agents \ {a} : AgentState(b)' = AgentState(b)]_vars

\* C40 witness: a task routed to one agent was submitted and is pending there
\* while an earlier task of another agent is being executed by that agent.
C40_Witness ==
    \E t \in TaskIds, u \in TaskIds :
        /\ u < t
        /\ tasks[t].agent_type # tasks[u].agent_type
        /\ task_queue[tasks[t].agent_type] = <<t>>
        /\ active_tasks[tasks[u].agent_type] = {u}
        /\ task_queue[tasks[u].agent_type] = <<>>
        /\ active_tasks[tasks[t].agent_type] = {}

====
